---- MODULE Spec2Model ----
(***************************************************************************)
(* Content pipeline of golang-book-ru: the structure validator, the        *)
(* content builder, the configuration loader of the content-author tool    *)
(* and the content checker, each a sequential command-line run over the    *)
(* same files: content.config.json, the content/ tree and build/.          *)
(***************************************************************************)
EXTENDS Integers, Sequences, FiniteSets, TLC

VARIABLES
    rootFs,     \* names present in the project root and in scripts/ (besides content, config)
    config,     \* content.config.json: [st, val]
    content,    \* content/: [exists, cats]
    build,      \* build/: [exists, files], files a function path -> text
    clock,      \* wall clock read by new Date()
    sv,         \* one StructureValidator run
    cb,         \* one ContentBuilder run, with what the runs so far left behind
    ca,         \* one content-author invocation
    cc,         \* one ContentChecker run
    profile,    \* .content-author-config.json, the author profile file
    export,     \* godojo-export/: the directory the exporter writes
    gp,         \* one GoDojoPrepare run, with what the runs so far left behind
    gv,         \* one GoDojoValidator run
    sg,         \* one StructureGenerator run
    cf          \* one ContentFormatter run, with the markdown files it works on

vars == <<rootFs, config, content, build, clock, sv, cb, ca, cc, profile, export, gp,
          gv, sg, cf>>

----------------------------------------------------------------------------
(* Bounds of the model *)

MaxTopics == 2      \* topic directories per category at Init
MaxRuns == 2        \* builder runs in one behaviour
MaxEdits == 1       \* edits of content/ between builder runs
MaxInvocations == 2 \* content-author invocations in one behaviour
MaxExports == 2     \* exporter runs in one behaviour
MaxDeleted == 1     \* files deleted from build/ between runs
MaxGenerations == 2 \* structure:generate runs
MaxLinks == 2       \* inline links in one markdown file
MaxFormats == 2     \* content:format runs

----------------------------------------------------------------------------
(* Sequences *)

Range(s) == {s[i] : i \in 1..Len(s)}

RECURSIVE Concat(_)
Concat(ss) == IF ss = <<>> THEN <<>> ELSE Head(ss) \o Concat(Tail(ss))

\* s.filter(keep), order kept
Filter(s, Keep(_)) == SelectSeq(s, Keep)

\* the subsequence of `order` whose elements are in S (a directory listing)
Listing(order, S) == SelectSeq(order, LAMBDA x : x \in S)

----------------------------------------------------------------------------
(* Names and their characters.  File and directory names are strings; the  *)
(* regular expressions of the tools read them character by character.      *)

Digits == {"0", "1", "2", "3", "4", "5", "6", "7", "8", "9"}
DigitVal(c) == CASE c = "0" -> 0 [] c = "1" -> 1 [] c = "2" -> 2 [] c = "3" -> 3
                 [] c = "4" -> 4 [] c = "5" -> 5 [] c = "6" -> 6 [] c = "7" -> 7
                 [] c = "8" -> 8 [] c = "9" -> 9

CatOrder == <<"basics", "web">>                       \* readdir('content') order
TopicOrder == <<"01-intro", "02-types", "04-loops", "16-intro", "17-types", "Notes">>
CatNames == Range(CatOrder)
TopicNames == Range(TopicOrder)

Chars(name) ==
    CASE name = "01-intro" -> <<"0", "1", "-", "i", "n", "t", "r", "o">>
      [] name = "02-types" -> <<"0", "2", "-", "t", "y", "p", "e", "s">>
      [] name = "04-loops" -> <<"0", "4", "-", "l", "o", "o", "p", "s">>
      [] name = "16-intro" -> <<"1", "6", "-", "i", "n", "t", "r", "o">>
      [] name = "17-types" -> <<"1", "7", "-", "t", "y", "p", "e", "s">>
      [] name = "Notes" -> <<"N", "o", "t", "e", "s">>
      [] name = "index.md" -> <<"i", "n", "d", "e", "x", ".", "m", "d">>
      [] name = "topic.md" -> <<"t", "o", "p", "i", "c", ".", "m", "d">>
      [] name = "basics" -> <<"b", "a", "s", "i", "c", "s">>
      [] name = "web" -> <<"w", "e", "b">>

\* /^\d{2}-/.test(name)
HasNumberPrefix(name) ==
    LET c == Chars(name)
    IN Len(c) >= 3 /\ c[1] \in Digits /\ c[2] \in Digits /\ c[3] = "-"

\* parseInt(name.match(/^(\d{2})-/)[1])
PrefixNumber(name) == LET c == Chars(name) IN 10 * DigitVal(c[1]) + DigitVal(c[2])

----------------------------------------------------------------------------
(* Files.  A markdown file is [st, fm, body]: st is "none" (no such file), *)
(* "unreadable" (readFile throws), "bad" (gray-matter throws on the front   *)
(* matter) or "ok".  A front-matter field that is absent or empty is ""    *)
(* (0 for module): both are falsy to the tools.                             *)
(* The body is what the tools measure of the markdown: words outside and   *)
(* inside fenced code blocks, ```go blocks, example and exercise            *)
(* subsections, headings, and what the advisory checks look for.            *)

\* the tags of a front matter: absent, or a list
NoTags == [present |-> FALSE, val |-> <<>>]
Tags(list) == [present |-> TRUE, val |-> list]

NoFm == [title |-> "", description |-> "", category |-> "", slug |-> "",
         module |-> 0, difficulty |-> "", authorId |-> "", language |-> "",
         tags |-> NoTags]

\* The sections of a body that the builder extracts.  A block of text is
\* prose or a fenced block with its label, as lines; a line is its text, its
\* indentation and whether it is a list item.  An example subsection is a title over blocks, an
\* exercise subsection a number and a title over paragraphs, a paragraph
\* being a hint (it opens with the bold hint marker) or not.  Cyrillic text is
\* written in Latin letters.
Prose(lines) == [fence |-> FALSE, label |-> "", lines |-> lines]
Fence(label, lines) == [fence |-> TRUE, label |-> label, lines |-> lines]
Line(text) == [indent |-> 0, bullet |-> FALSE, text |-> text]
Item(text) == [indent |-> 0, bullet |-> TRUE, text |-> text]
Paragraph(lines) == [hint |-> FALSE, lines |-> lines]
Hint(lines) == [hint |-> TRUE, lines |-> lines]
NoSections == [theory |-> "", summary |-> "", examples |-> <<>>, exercises |-> <<>>]

\* example subsections: a complete program with its output, a bare statement
\* with no explanation, a program without its package clause, prose only
RunnableExample ==
    [title |-> "Hello",
     blocks |-> <<Prose(<<Line("Prints a greeting.")>>),
                  Fence("go", <<Line("package main"), Line("func main() {"), Line("println(1)"),
                               Line("}")>>),
                  Fence("text", <<Line("1")>>)>>]
SnippetExample == [title |-> "Snippet", blocks |-> <<Fence("go", <<Line("x := 1")>>)>>]
MainOnlyExample ==
    [title |-> "Main", blocks |-> <<Fence("go", <<Line("func main() {"), Line("}")>>),
                                    Prose(<<Line("Lacks the package clause.")>>)>>]
NoCodeExample == [title |-> "Text", blocks |-> <<Prose(<<Line("No code here.")>>)>>]
\* exercise subsections: with hints, and with nothing under the heading
HintedExercise ==
    [number |-> 1, title |-> <<"Bazovye", "funkcii">>,
     content |-> <<Paragraph(<<Line("Write a function.")>>),
                   Hint(<<Item("use fmt"), Line(""), Item("return early")>>)>>]
EmptyExercise == [number |-> 2, title |-> <<"Srezy">>, content |-> <<>>]

NoBody == [words |-> 0, codeWords |-> 0, goBlocks |-> 0, examples |-> 0,
           exercises |-> 0, lorem |-> FALSE, headings |-> 0, todo |-> FALSE,
           missingSections |-> 4, noPackage |-> 0, uncheckedErr |-> 0, brokenLinks |-> 0,
           sections |-> NoSections]

NoFile == [st |-> "none", fm |-> NoFm, body |-> NoBody]
UnreadableFile == [st |-> "unreadable", fm |-> NoFm, body |-> NoBody]
BadFile == [st |-> "bad", fm |-> NoFm, body |-> NoBody]

FullBody == [words |-> 800, codeWords |-> 40, goBlocks |-> 3, examples |-> 3,
             exercises |-> 2, lorem |-> FALSE, headings |-> 8, todo |-> FALSE,
             missingSections |-> 0, noPackage |-> 0, uncheckedErr |-> 0, brokenLinks |-> 0,
             sections |-> [theory |-> "Theory", summary |-> "Summary",
                           examples |-> <<RunnableExample, SnippetExample, MainOnlyExample>>,
                           exercises |-> <<HintedExercise, EmptyExercise>>]]

TopicFile(slug, module, cat) ==
    [st |-> "ok",
     fm |-> [title |-> "T", description |-> "D", category |-> cat, slug |-> slug,
             module |-> module, difficulty |-> "Beginner", authorId |-> "a1",
             language |-> "ru", tags |-> Tags(<<"golang", cat>>)],
     body |-> FullBody]

IndexFile(cat, title) ==
    [st |-> "ok",
     fm |-> [title |-> title, description |-> "D", category |-> cat, slug |-> "",
             module |-> 0, difficulty |-> "Beginner", authorId |-> "a1",
             language |-> "ru", tags |-> NoTags],
     body |-> FullBody]

\* A directory of content/: st is "absent", "file" (a file of that name) or
\* "dir"; listable is FALSE when readdir throws on it (no read permission).
NoTopicDir == [exists |-> FALSE, topic |-> NoFile]
NoTopics == [t \in TopicNames |-> NoTopicDir]
NoCatDir == [st |-> "absent", listable |-> TRUE, index |-> NoFile, topics |-> NoTopics]
NoContent == [exists |-> FALSE, cats |-> [c \in CatNames |-> NoCatDir]]

CatDir(index, topics) == [st |-> "dir", listable |-> TRUE, index |-> index, topics |-> topics]

TopicDirsOf(catDir) == {t \in TopicNames : catDir.topics[t].exists}

\* build/: the topic JSON files and category YAML files, each [path, rec] with
\* one file per path, the two index files and the manifest
NoJson == [exists |-> FALSE, val |-> <<>>]
NoBuild == [exists |-> FALSE, topicFiles |-> {}, catFiles |-> {},
            topicsIndex |-> NoJson, categoriesIndex |-> NoJson, manifest |-> NoJson]

----------------------------------------------------------------------------
(* content.config.json.  st is "missing", "unreadable" (readFile throws),  *)
(* "badjson" (JSON.parse throws), "null" (the JSON text null) or "object". *)
(* A section of the object is "missing" (undefined), "mistyped" (a truthy  *)
(* value of the wrong shape) or "ok"; categories is missing, mistyped (an  *)
(* object, not an array) or an array of category entries.                  *)

NoConfigVal == [structure |-> "missing", godojo |-> "missing", quality |-> "missing",
                catsKind |-> "missing", cats |-> <<>>]

CategoryCfg(slug, difficulty) ==
    [slug |-> slug, titleRu |-> "T", descriptionRu |-> "D", modules |-> "1-15",
     difficulty |-> difficulty, estimatedHours |-> 40]

ConfigVal(structure, godojo, quality, cats) ==
    [structure |-> structure, godojo |-> godojo, quality |-> quality,
     catsKind |-> "array", cats |-> cats]

ConfigFile(st) == [st |-> st, val |-> NoConfigVal]
ConfigObject(val) == [st |-> "object", val |-> val]

GoodCats == <<CategoryCfg("basics", "Beginner"), CategoryCfg("web", "Intermediate")>>
GoodConfig == ConfigObject(ConfigVal("ok", "ok", "ok", GoodCats))

----------------------------------------------------------------------------
(* Structure validator: src/scripts/structure-validator.js *)

RootList == <<"content", "content.config.json", "package.json", "CONTRIBUTING.md",
              "README.md", "scripts">>
ScriptList == <<"content-author.js", "content-checker.js", "content-formatter.js",
                "content-builder.js", "git-sync.js", "structure-validator.js",
                "structure-generator.js", "help.js">>

\* existsSync(item) for an item of the project root
RootExists(item) ==
    CASE item = "content" -> content.exists
      [] item = "content.config.json" -> config.st # "missing"
      [] OTHER -> item \in rootFs

Finding(msg, at) == [msg |-> msg, at |-> at]

SVNew == [pc |-> "root", errors |-> <<>>, warnings |-> <<>>, exit |-> -1, threw |-> FALSE,
          ran |-> <<>>]

addError(acc, msg, at) == [acc EXCEPT !.errors = Append(@, Finding(msg, at))]
addWarning(acc, msg, at) == [acc EXCEPT !.warnings = Append(@, Finding(msg, at))]
Throw(acc) == [acc EXCEPT !.threw = TRUE]

RECURSIVE addErrors(_, _, _)
addErrors(acc, msg, ats) ==
    IF ats = <<>> THEN acc ELSE addErrors(addError(acc, msg, Head(ats)), msg, Tail(ats))

RECURSIVE addWarnings(_, _, _)
addWarnings(acc, msg, ats) ==
    IF ats = <<>> THEN acc ELSE addWarnings(addWarning(acc, msg, Head(ats)), msg, Tail(ats))

validateRootStructure(acc) ==
    LET a1 == addErrors(acc, "missing root item", Filter(RootList, LAMBDA i : ~RootExists(i)))
    IN IF RootExists("scripts")
       THEN addWarnings(a1, "missing script", Filter(ScriptList, LAMBDA s : s \notin rootFs))
       ELSE a1

\* the fields of `fields` that are falsy in the front matter fm
MissingFields(fm, fields) ==
    Filter(fields, LAMBDA f :
        CASE f = "title" -> fm.title = ""
          [] f = "description" -> fm.description = ""
          [] f = "category" -> fm.category = ""
          [] f = "slug" -> fm.slug = ""
          [] f = "module" -> fm.module = 0
          [] f = "difficulty" -> fm.difficulty = ""
          [] f = "authorId" -> fm.authorId = "")

IndexRequired == <<"title", "description", "difficulty", "authorId">>
TopicRequired == <<"title", "description", "module", "category", "slug", "difficulty",
                   "authorId">>

validateCategoryIndex(acc, index, slug) ==
    IF index.st # "ok"
    THEN addError(acc, "cannot read index", slug)
    ELSE LET a1 == IF index.fm.category # slug
                   THEN addError(acc, "category slug mismatch", slug)
                   ELSE acc
         IN addErrors(a1, "missing index field", MissingFields(index.fm, IndexRequired))

TotalModules == 79

validateTopicFile(acc, file, name) ==
    IF file.st # "ok"
    THEN addError(acc, "cannot read topic", name)
    ELSE LET a1 == addErrors(acc, "missing topic field",
                             MissingFields(file.fm, TopicRequired))
         IN IF file.fm.module # 0 /\ (file.fm.module < 1 \/ file.fm.module > TotalModules)
            THEN addWarning(a1, "bad module number", name)
            ELSE a1

RECURSIVE validateTopicDirs(_, _, _)
validateTopicDirs(acc, catDir, names) ==
    IF names = <<>> THEN acc
    ELSE LET name == Head(names)
             a1 == IF ~HasNumberPrefix(name)
                   THEN addWarning(acc, "bad topic directory name", name)
                   ELSE acc
             file == catDir.topics[name].topic
             a2 == IF file.st = "none"
                   THEN addError(a1, "missing topic.md", name)
                   ELSE validateTopicFile(a1, file, name)
         IN validateTopicDirs(a2, catDir, Tail(names))

\* readdir throws on a file and on a directory that cannot be listed
CanList(catDir) == catDir.st = "dir" /\ catDir.listable

validateTopicsStructure(acc, catDir, slug) ==
    IF ~CanList(catDir) THEN Throw(acc)
    ELSE LET names == Listing(TopicOrder, TopicDirsOf(catDir))
             a1 == IF names = <<>> THEN addWarning(acc, "no topics", slug) ELSE acc
         IN validateTopicDirs(a1, catDir, names)

\* content/<slug> as the validator finds it; a slug that names no directory
CatDirOf(slug) == IF slug \in CatNames THEN content.cats[slug] ELSE NoCatDir

\* the body of the loop over config.categories; a category entry without a
\* slug makes join('content', undefined) throw
RECURSIVE validateCategories(_, _)
validateCategories(acc, cats) ==
    IF cats = <<>> \/ acc.threw THEN acc
    ELSE LET slug == Head(cats).slug
             dir == CatDirOf(slug)
         IN IF slug = "" THEN Throw(acc)
            ELSE IF dir.st = "absent"
            THEN validateCategories(addError(acc, "missing category directory", slug),
                                    Tail(cats))
            ELSE LET a1 == IF dir.st = "file" \/ dir.index.st = "none"
                           THEN addError(acc, "missing index.md", slug)
                           ELSE validateCategoryIndex(acc, dir.index, slug)
                 IN validateCategories(validateTopicsStructure(a1, dir, slug), Tail(cats))

validateContentStructure(acc) ==
    IF ~content.exists THEN addError(acc, "content not found", "content")
    ELSE IF config.st \in {"missing", "unreadable", "badjson"}
    THEN addError(acc, "cannot read config", "content.config.json")
    ELSE IF config.st = "null" THEN acc
    ELSE IF config.val.catsKind # "array" THEN Throw(acc)
    ELSE validateCategories(acc, config.val.cats)

RequiredSections == <<"structure", "categories", "quality", "godojo">>
CategoryRequired == <<"slug", "titleRu", "modules", "difficulty">>

\* !config[section]
SectionFalsy(val, section) ==
    CASE section = "structure" -> val.structure = "missing"
      [] section = "categories" -> val.catsKind = "missing"
      [] section = "quality" -> val.quality = "missing"
      [] section = "godojo" -> val.godojo = "missing"

CategoryFieldFalsy(cat, field) ==
    CASE field = "slug" -> cat.slug = ""
      [] field = "titleRu" -> cat.titleRu = ""
      [] field = "modules" -> cat.modules = ""
      [] field = "difficulty" -> cat.difficulty = ""

RECURSIVE validateConfigCategories(_, _, _)
validateConfigCategories(acc, cats, slugs) ==
    IF cats = <<>> THEN acc
    ELSE LET cat == Head(cats)
             a1 == IF cat.slug \in slugs
                   THEN addError(acc, "duplicate category slug", cat.slug)
                   ELSE acc
             a2 == addErrors(a1, "missing category field",
                             Filter(CategoryRequired, LAMBDA f : CategoryFieldFalsy(cat, f)))
         IN validateConfigCategories(a2, Tail(cats), slugs \cup {cat.slug})

validateConfiguration(acc) ==
    IF config.st = "missing" THEN addError(acc, "config not found", "content.config.json")
    ELSE IF config.st # "object"
    THEN addError(acc, "config parse error", "content.config.json")
    ELSE LET a1 == addErrors(acc, "missing config section",
                             Filter(RequiredSections,
                                    LAMBDA x : SectionFalsy(config.val, x)))
         IN IF config.val.catsKind = "array"
            THEN validateConfigCategories(a1, config.val.cats, {})
            ELSE a1

LowerKebabChars ==
    Digits \cup {"-"} \cup
    {"a", "b", "c", "d", "e", "f", "g", "h", "i", "j", "k", "l", "m",
     "n", "o", "p", "q", "r", "s", "t", "u", "v", "w", "x", "y", "z"}

\* /^[a-z0-9-]+$/.test(name)
IsLowerKebab(name) ==
    LET c == Chars(name) IN Len(c) >= 1 /\ \A i \in 1..Len(c) : c[i] \in LowerKebabChars

\* /^[a-z0-9-]+\.md$/.test(name), for a name that ends with .md
IsLowerKebabMd(name) ==
    LET c == Chars(name)
    IN Len(c) >= 4 /\ \A i \in 1..(Len(c) - 3) : c[i] \in LowerKebabChars

\* checkNaming of one topic directory: its name, then its only file, topic.md
RECURSIVE checkNamingTopics(_, _, _)
checkNamingTopics(acc, catDir, names) ==
    IF names = <<>> THEN acc
    ELSE LET name == Head(names)
             a1 == IF ~IsLowerKebab(name)
                   THEN addWarning(acc, "bad directory name", name)
                   ELSE acc
             a2 == IF catDir.topics[name].topic.st # "none" /\ ~IsLowerKebabMd("topic.md")
                   THEN addWarning(a1, "bad file name", name)
                   ELSE a1
         IN checkNamingTopics(a2, catDir, Tail(names))

\* checkNaming('content'): the entries of content/, each category directory
\* listed in turn (topic directories, then index.md)
RECURSIVE checkNaming(_, _)
checkNaming(acc, names) ==
    IF names = <<>> \/ acc.threw THEN acc
    ELSE LET name == Head(names)
             dir == content.cats[name]
         IN IF dir.st = "file" THEN checkNaming(acc, Tail(names))
            ELSE LET a1 == IF ~IsLowerKebab(name)
                           THEN addWarning(acc, "bad directory name", name)
                           ELSE acc
                 IN IF ~CanList(dir) THEN Throw(a1)
                    ELSE LET a2 == checkNamingTopics(a1, dir,
                                       Listing(TopicOrder, TopicDirsOf(dir)))
                             a3 == IF dir.index.st # "none" /\ ~IsLowerKebabMd("index.md")
                                   THEN addWarning(a2, "bad file name", name)
                                   ELSE a2
                         IN checkNaming(a3, Tail(names))

\* the entries of content/ in readdir order
ContentEntries == Listing(CatOrder, {c \in CatNames : content.cats[c].st # "absent"})

validateNamingConventions(acc) ==
    IF ~content.exists THEN acc ELSE checkNaming(acc, ContentEntries)

\* topicNumbers.sort((a, b) => a - b)
RECURSIVE InsertSorted(_, _)
InsertSorted(n, s) ==
    IF s = <<>> THEN <<n>>
    ELSE IF n <= Head(s) THEN <<n>> \o s
    ELSE <<Head(s)>> \o InsertSorted(n, Tail(s))

RECURSIVE SortNumbers(_)
SortNumbers(s) == IF s = <<>> THEN <<>> ELSE InsertSorted(Head(s), SortNumbers(Tail(s)))

\* the numeric prefixes of the topic directories of a category, sorted
TopicNumbers(catDir) ==
    LET named == Filter(Listing(TopicOrder, TopicDirsOf(catDir)), HasNumberPrefix)
    IN SortNumbers([i \in 1..Len(named) |-> PrefixNumber(named[i])])

\* the first i with topicNumbers[i] # i, 0 when there is none
FirstGap(nums) ==
    LET bad == {i \in 1..Len(nums) : nums[i] # i}
    IN IF bad = {} THEN 0 ELSE CHOOSE i \in bad : \A j \in bad : i <= j

RECURSIVE validateIntegrityCats(_, _)
validateIntegrityCats(acc, names) ==
    IF names = <<>> \/ acc.threw THEN acc
    ELSE LET dir == content.cats[Head(names)]
         IN IF dir.st = "file" THEN validateIntegrityCats(acc, Tail(names))
            ELSE IF ~CanList(dir) THEN Throw(acc)
            ELSE LET a1 == IF FirstGap(TopicNumbers(dir)) # 0
                           THEN addWarning(acc, "topic numbering broken", Head(names))
                           ELSE acc
                 IN validateIntegrityCats(a1, Tail(names))

validateIntegrity(acc) ==
    IF ~content.exists THEN acc ELSE validateIntegrityCats(acc, ContentEntries)

\* one step of run(): the step ran; a throw lands in run's catch, exit(1)
SVAfter(step, acc, next) ==
    LET a == [acc EXCEPT !.ran = Append(@, step)]
    IN IF a.threw THEN [a EXCEPT !.pc = "done", !.exit = 1] ELSE [a EXCEPT !.pc = next]

\* the exit code taken from every finding, advisory ones too
SVExitCodeAnyFinding(s) == IF Len(s.errors) + Len(s.warnings) > 0 THEN 1 ELSE 0

\* process.exit(this.errors.length > 0 ? 1 : 0)
SVExitCode(s) == IF Len(s.errors) > 0 THEN 1 ELSE 0

env == <<rootFs, config, content>>

\* a validator that repairs: the root step creates the root items it misses
SVRootCreating ==
    /\ sv.pc = "root"
    /\ sv' = SVAfter("root", validateRootStructure(sv), "content")
    /\ rootFs' = rootFs \cup {"package.json", "CONTRIBUTING.md", "README.md", "scripts"}
    /\ UNCHANGED <<config, content, build, clock, cb, ca, cc, profile, export, gp, gv, sg, cf>>

SVRoot ==
    /\ sv.pc = "root"
    /\ sv' = SVAfter("root", validateRootStructure(sv), "content")
    /\ UNCHANGED <<env, build, clock, cb, ca, cc, profile, export, gp, gv, sg, cf>>

SVContent ==
    /\ sv.pc = "content"
    /\ sv' = SVAfter("content", validateContentStructure(sv), "config")
    /\ UNCHANGED <<env, build, clock, cb, ca, cc, profile, export, gp, gv, sg, cf>>

SVConfig ==
    /\ sv.pc = "config"
    /\ sv' = SVAfter("config", validateConfiguration(sv), "naming")
    /\ UNCHANGED <<env, build, clock, cb, ca, cc, profile, export, gp, gv, sg, cf>>

SVNaming ==
    /\ sv.pc = "naming"
    /\ sv' = SVAfter("naming", validateNamingConventions(sv), "integrity")
    /\ UNCHANGED <<env, build, clock, cb, ca, cc, profile, export, gp, gv, sg, cf>>

SVIntegrity ==
    /\ sv.pc = "integrity"
    /\ sv' = SVAfter("integrity", validateIntegrity(sv), "exit")
    /\ UNCHANGED <<env, build, clock, cb, ca, cc, profile, export, gp, gv, sg, cf>>

SVExit ==
    /\ sv.pc = "exit"
    /\ sv' = [sv EXCEPT !.pc = "done", !.exit = SVExitCode(sv)]
    /\ UNCHANGED <<env, build, clock, cb, ca, cc, profile, export, gp, gv, sg, cf>>

----------------------------------------------------------------------------
(* Content builder: src/unnamed/part_004 (scripts/content-builder.js).     *)
(* build/ holds the topic JSON files, the category YAML files, the two     *)
(* index files and the manifest; a file is [path, rec], one per path.      *)

\* writeFile(path, text): the file at path is created or overwritten
WriteFile(files, path, rec) ==
    {f \in files : f.path # path} \cup {[path |-> path, rec |-> rec]}

NoStats == [categories |-> 0, topics |-> 0, exercises |-> 0, codeExamples |-> 0]

\* new ContentBuilder(), with the run's view of build/ in out
CBNew == [categories |-> <<>>, topics |-> <<>>, stats |-> NoStats, threw |-> FALSE,
          ran |-> <<>>, out |-> build, wroteTopics |-> {}, wroteCats |-> {}]

CBThrow(r) == [r EXCEPT !.threw = TRUE]

ensureOutputDir(r) == [r EXCEPT !.out.exists = TRUE]

loadConfig(r) ==
    IF config.st \in {"missing", "unreadable", "badjson"} THEN CBThrow(r) ELSE r

\* dirname(path) and path.split('/').pop(), a path being its segments
Dirname(path) == SubSeq(path, 1, Len(path) - 1)
LastSegment(path) == path[Len(path)]

\* const categorySlug = dirname(categoryPath).split('/').pop()
CategorySlug(categoryPath) == LastSegment(Dirname(categoryPath))

\* Map.set(key, val): a present key keeps its place
MapSet(map, key, val) ==
    IF \E i \in 1..Len(map) : map[i].key = key
    THEN [i \in 1..Len(map) |-> IF map[i].key = key THEN [key |-> key, val |-> val]
                                ELSE map[i]]
    ELSE Append(map, [key |-> key, val |-> val])

MapHas(map, key) == \E i \in 1..Len(map) : map[i].key = key

\* { slug: categorySlug, ...data, topics: [] }
CategoryRecord(categorySlug, fm) ==
    [slug |-> IF fm.slug # "" THEN fm.slug ELSE categorySlug, title |-> fm.title,
     description |-> fm.description, category |-> fm.category,
     difficulty |-> fm.difficulty, topics |-> <<>>]

\* Math.ceil(n / 200)
ReadingTime(n) == (n + 199) \div 200

\* { ...frontmatter, category: categorySlug, content, stats }
\* ContentBuilder.extractCodeExamples: per subsection, the first ```go block
\* is the code ('' when there is none) and the text without the ```go blocks
\* the explanation
extractCodeExamples(examples) ==
    [i \in 1..Len(examples) |->
        LET go == Filter(examples[i].blocks, LAMBDA b : b.fence /\ b.label = "go")
        IN [title |-> examples[i].title,
            code |-> IF go = <<>> THEN <<>> ELSE Head(go).lines,
            explanation |-> Filter(examples[i].blocks,
                                   LAMBDA b : ~(b.fence /\ b.label = "go"))]]

\* ContentBuilder.extractExercises: number, title and content of each
\* "Exercise N: title" subsection
extractExercises(exercises) ==
    [i \in 1..Len(exercises) |->
        [number |-> exercises[i].number, title |-> exercises[i].title,
         content |-> exercises[i].content]]

\* ContentBuilder.parseMarkdown: the sections of the body by heading
parseMarkdown(body) ==
    [theory |-> body.sections.theory, summary |-> body.sections.summary,
     examples |-> extractCodeExamples(body.sections.examples),
     exercises |-> extractExercises(body.sections.exercises)]

TopicRecord(file, categorySlug) ==
    [slug |-> file.fm.slug, title |-> file.fm.title, module |-> file.fm.module,
     category |-> categorySlug, difficulty |-> file.fm.difficulty,
     description |-> file.fm.description, tags |-> file.fm.tags,
     content |-> parseMarkdown(file.body),
     stats |-> [wordCount |-> file.body.words, codeExamples |-> file.body.examples,
                exercises |-> file.body.exercises,
                readingTime |-> ReadingTime(file.body.words)]]

\* scanTopic past the parse: the topic record, its category's list, the stats
scanParsedTopic(r, file, categorySlug) ==
    LET entry == [slug |-> file.fm.slug, title |-> file.fm.title,
                  module |-> file.fm.module]
        cats == [i \in 1..Len(r.categories) |->
                   IF r.categories[i].key = categorySlug
                   THEN [r.categories[i] EXCEPT !.val.topics = Append(@, entry)]
                   ELSE r.categories[i]]
    IN [r EXCEPT !.topics = Append(@, TopicRecord(file, categorySlug)),
                 !.categories = cats,
                 !.stats.topics = @ + 1,
                 !.stats.codeExamples = @ + file.body.examples,
                 !.stats.exercises = @ + file.body.exercises]

\* scanTopic with the parse failure of one file caught and the file skipped
scanTopicSkippingBad(r, file, categorySlug) ==
    IF file.st # "ok" THEN r ELSE scanParsedTopic(r, file, categorySlug)

\* readFile and matter(content) are not guarded: a failure leaves scanTopic
scanTopic(r, file, categorySlug) ==
    IF file.st = "none" THEN r
    ELSE IF file.st # "ok" THEN CBThrow(r)
    ELSE scanParsedTopic(r, file, categorySlug)

RECURSIVE scanTopics(_, _, _, _)
scanTopics(r, catDir, names, categorySlug) ==
    IF names = <<>> \/ r.threw THEN r
    ELSE scanTopics(scanTopic(r, catDir.topics[Head(names)].topic, categorySlug),
                    catDir, Tail(names), categorySlug)

scanCategory(r, categoryPath) ==
    LET categorySlug == CategorySlug(categoryPath)
        dir == content.cats[LastSegment(categoryPath)]
        r1 == IF dir.index.st = "none" THEN r
              ELSE IF dir.index.st # "ok" THEN CBThrow(r)
              ELSE [r EXCEPT !.categories =
                                 MapSet(@, categorySlug,
                                        CategoryRecord(categorySlug, dir.index.fm)),
                             !.stats.categories = @ + 1]
    IN IF r1.threw THEN r1
       ELSE IF ~dir.listable THEN CBThrow(r1)
       ELSE scanTopics(r1, dir, Listing(TopicOrder, TopicDirsOf(dir)), categorySlug)

RECURSIVE scanCategories(_, _)
scanCategories(r, names) ==
    IF names = <<>> \/ r.threw THEN r
    ELSE scanCategories(scanCategory(r, <<"content", Head(names)>>), Tail(names))

scanContent(r) ==
    IF ~content.exists THEN CBThrow(r)
    ELSE scanCategories(r, Listing(CatOrder, {c \in CatNames : content.cats[c].st = "dir"}))

\* `${topic.slug}.json` without the extension: an absent slug prints as undefined
FileName(slug) == IF slug = "" THEN "undefined" ELSE slug

\* join(outputDir, 'topics', topic.category, `${topic.slug}.json`)
TopicPath(topic) == [dir |-> topic.category, name |-> FileName(topic.slug)]

RECURSIVE writeTopics(_, _)
writeTopics(r, topics) ==
    IF topics = <<>> THEN r
    ELSE LET topic == Head(topics)
         IN writeTopics([r EXCEPT !.out.topicFiles = WriteFile(@, TopicPath(topic), topic),
                                  !.wroteTopics = @ \cup {TopicPath(topic)}],
                        Tail(topics))

RECURSIVE writeCategories(_, _)
writeCategories(r, cats) ==
    IF cats = <<>> THEN r
    ELSE LET cat == Head(cats)
         IN writeCategories([r EXCEPT !.out.catFiles = WriteFile(@, cat.key, cat.val),
                                      !.wroteCats = @ \cup {cat.key}],
                            Tail(cats))

generateOutput(r) == writeCategories(writeTopics(r, r.topics), r.categories)

TopicsIndex(topics) ==
    [i \in 1..Len(topics) |->
        [slug |-> topics[i].slug, title |-> topics[i].title,
         category |-> topics[i].category, module |-> topics[i].module,
         difficulty |-> topics[i].difficulty, tags |-> topics[i].tags]]

CategoriesIndex(cats) ==
    [i \in 1..Len(cats) |->
        [slug |-> cats[i].val.slug, title |-> cats[i].val.title,
         description |-> cats[i].val.description, difficulty |-> cats[i].val.difficulty,
         topicsCount |-> Len(cats[i].val.topics)]]

\* the indexes appended to the ones build/ already holds
generateIndexesMerging(r) ==
    [r EXCEPT !.out.topicsIndex = [exists |-> TRUE, val |-> @.val \o TopicsIndex(r.topics)],
              !.out.categoriesIndex =
                  [exists |-> TRUE, val |-> @.val \o CategoriesIndex(r.categories)]]

generateIndexes(r) ==
    [r EXCEPT !.out.topicsIndex = [exists |-> TRUE, val |-> TopicsIndex(r.topics)],
              !.out.categoriesIndex = [exists |-> TRUE, val |-> CategoriesIndex(r.categories)]]

\* Math.min(...xs) and Math.max(...xs); 0 stands for the null JSON prints for
\* the infinities of an empty list
MinOf(S) == IF S = {} THEN 0 ELSE CHOOSE x \in S : \A y \in S : x <= y
MaxOf(S) == IF S = {} THEN 0 ELSE CHOOSE x \in S : \A y \in S : x >= y

Manifest(r, now) ==
    [version |-> "1.0.0", generated |-> now, platform |-> "godojo.dev",
     language |-> IF config.val.structure = "ok" THEN "ru" ELSE "",
     stats |-> r.stats,
     categories |-> [i \in 1..Len(r.categories) |-> r.categories[i].key],
     modulesRange |-> [min |-> MinOf({r.topics[i].module : i \in 1..Len(r.topics)}),
                       max |-> MaxOf({r.topics[i].module : i \in 1..Len(r.topics)})]]

\* config.structure.defaultLanguage throws on a null config and on a config
\* without a structure section
generateManifest(r, now) ==
    IF config.st = "null" \/ config.val.structure = "missing" THEN CBThrow(r)
    ELSE [r EXCEPT !.out.manifest = [exists |-> TRUE, val |-> Manifest(r, now)]]

\* one step of run(), skipped once an earlier step threw
CBStep(r, name, after) ==
    IF r.threw THEN r ELSE [after EXCEPT !.ran = Append(r.ran, name)]

\* ContentBuilder.run() of a fresh process, at time now
CBRun(now) ==
    LET r1 == CBStep(CBNew, "ensureOutputDir", ensureOutputDir(CBNew))
        r2 == CBStep(r1, "loadConfig", loadConfig(r1))
        r3 == CBStep(r2, "scanContent", scanContent(r2))
        r4 == CBStep(r3, "generateOutput", generateOutput(r3))
        r5 == CBStep(r4, "generateIndexes", generateIndexes(r4))
        r6 == CBStep(r5, "generateManifest", generateManifest(r5, now))
    IN r6

\* process.exit(1) in run's catch; a run that returns ends the process with 0
CBExitCode(r) == IF r.threw THEN 1 ELSE 0

\* what a builder run left behind, and what the runs before it did: runs and
\* edits count the steps taken, prev is build/ as the run found it, changed
\* tells whether content/ was edited since the run before
CBIdle == [runs |-> 0, edits |-> 0, dirty |-> FALSE, changed |-> FALSE, exit |-> -1,
           prev |-> NoBuild, last |-> [CBNew EXCEPT !.out = NoBuild]]

Build ==
    /\ cb.runs < MaxRuns
    /\ LET r == CBRun(clock + 1)
       IN /\ build' = r.out
          /\ cb' = [cb EXCEPT !.runs = @ + 1, !.dirty = FALSE, !.changed = cb.dirty,
                              !.exit = CBExitCode(r), !.prev = build,
                              !.last = [r EXCEPT !.out = NoBuild]]
    /\ clock' = clock + 1
    /\ UNCHANGED <<env, sv, ca, cc, profile, export, gp, gv, sg, cf>>

\* the topic directories and topic.md files the builder meets
CBTopicNames == {"01-intro", "02-types"}
CBTopicFiles == {BadFile, TopicFile("intro", 1, "basics"), TopicFile("types", 2, "basics")}

\* The author's edits of content/ between builder runs (the environment):
\* a topic directory added or removed, a category directory added or removed.
CanEdit == cb.edits < MaxEdits

Edited == cb' = [cb EXCEPT !.edits = @ + 1, !.dirty = TRUE]

AddTopic ==
    /\ CanEdit
    /\ \E c \in CatNames, t \in CBTopicNames, f \in CBTopicFiles :
          /\ content.exists
          /\ content.cats[c].st = "dir"
          /\ ~content.cats[c].topics[t].exists
          /\ Cardinality(TopicDirsOf(content.cats[c])) < MaxTopics
          /\ content' = [content EXCEPT !.cats[c].topics[t] = [exists |-> TRUE, topic |-> f]]
    /\ Edited
    /\ UNCHANGED <<rootFs, config, build, clock, sv, ca, cc, profile, export, gp, gv, sg, cf>>

RemoveTopic ==
    /\ CanEdit
    /\ \E c \in CatNames, t \in TopicNames :
          /\ content.exists
          /\ content.cats[c].st = "dir"
          /\ content.cats[c].topics[t].exists
          /\ content' = [content EXCEPT !.cats[c].topics[t] = NoTopicDir]
    /\ Edited
    /\ UNCHANGED <<rootFs, config, build, clock, sv, ca, cc, profile, export, gp, gv, sg, cf>>

AddCategory ==
    /\ CanEdit
    /\ \E c \in CatNames :
          /\ content.exists
          /\ content.cats[c].st = "absent"
          /\ content' = [content EXCEPT !.cats[c] = CatDir(IndexFile(c, c), NoTopics)]
    /\ Edited
    /\ UNCHANGED <<rootFs, config, build, clock, sv, ca, cc, profile, export, gp, gv, sg, cf>>

RemoveCategory ==
    /\ CanEdit
    /\ \E c \in CatNames :
          /\ content.exists
          /\ content.cats[c].st = "dir"
          /\ content' = [content EXCEPT !.cats[c] = NoCatDir]
    /\ Edited
    /\ UNCHANGED <<rootFs, config, build, clock, sv, ca, cc, profile, export, gp, gv, sg, cf>>

----------------------------------------------------------------------------
(* Content author: src/unnamed/part_003 (scripts/content-author.js).       *)
(* ConfigManager.loadConfig and the zod schema it validates against.       *)

\* what a thrown ContentAuthorError carries: its class, its code and the
\* itemized details.errors
NoError == [name |-> "", code |-> "", errors |-> <<>>]
ContentAuthorError(name, code, errors) == [name |-> name, code |-> code, errors |-> errors]

\* one issue of a ZodError: the path of the offending value (index 0 and
\* field "" for a whole section, section "" for the root value)
ZodIssue(section, index, field) == [section |-> section, index |-> index, field |-> field]

\* z.enum(['Beginner', 'Intermediate', 'Advanced'])
Difficulties == {"Beginner", "Intermediate", "Advanced"}

\* the object schema of one categories entry; "" stands for an absent field
CategorySchema(cat, i) ==
    LET Required(field) == IF cat[field] = "" THEN <<ZodIssue("categories", i, field)>>
                           ELSE <<>>
    IN Required("slug") \o Required("titleRu") \o Required("descriptionRu")
       \o Required("modules")
       \o (IF cat.difficulty \in Difficulties THEN <<>>
           ELSE <<ZodIssue("categories", i, "difficulty")>>)
       \o (IF cat.estimatedHours > 0 THEN <<>>
           ELSE <<ZodIssue("categories", i, "estimatedHours")>>)

\* a section that is an object of the required shape, or one issue
SectionSchema(val, section) ==
    IF val[section] = "ok" THEN <<>> ELSE <<ZodIssue(section, 0, "")>>

CategoriesSchema(val) ==
    IF val.catsKind # "array" THEN <<ZodIssue("categories", 0, "")>>
    ELSE Concat([i \in 1..Len(val.cats) |-> CategorySchema(val.cats[i], i)])

\* the schema without its godojo section
ConfigSchemaWithoutGodojo(cfg) ==
    IF cfg.st = "null" THEN <<ZodIssue("", 0, "")>>
    ELSE SectionSchema(cfg.val, "structure") \o CategoriesSchema(cfg.val)
         \o SectionSchema(cfg.val, "quality")

\* ConfigSchema.parse(rawConfig): the issues of the ZodError, none when it passes
ConfigSchema(cfg) ==
    IF cfg.st = "null" THEN <<ZodIssue("", 0, "")>>
    ELSE SectionSchema(cfg.val, "structure") \o SectionSchema(cfg.val, "godojo")
         \o CategoriesSchema(cfg.val) \o SectionSchema(cfg.val, "quality")

\* the outcome of loadConfig: the config returned, or the error thrown
Loaded == [ok |-> TRUE, error |-> NoError]
Failed(error) == [ok |-> FALSE, error |-> error]
NotLoaded == [ok |-> FALSE, error |-> NoError]

\* ConfigManager.loadConfig(configPath)
ConfigManagerLoadConfig(cfg) ==
    IF cfg.st = "missing"
    THEN Failed(ContentAuthorError("ConfigError", "CONFIG_NOT_FOUND", <<>>))
    ELSE IF cfg.st = "badjson"
    THEN Failed(ContentAuthorError("ConfigError", "CONFIG_INVALID_JSON", <<>>))
    ELSE IF cfg.st = "unreadable"
    THEN Failed(ContentAuthorError("ConfigError", "CONFIG_LOAD_FAILED", <<>>))
    ELSE IF ConfigSchema(cfg) # <<>>
    THEN Failed(ContentAuthorError("ValidationError", "VALIDATION_SCHEMA_FAILED",
                                   ConfigSchema(cfg)))
    ELSE Loaded

\* AuthorManager: the profile file is [st, readonly, authorId, username,
\* joinDate, contentCreated, history], st being "none" (no file), "bad" (not
\* JSON or not of AuthorConfigSchema) or "ok" and readonly telling that the
\* file cannot be written; the profile a process holds in memory is
\* [loaded, authorId, username, joinDate, contentCreated, history]
NoProfile == [st |-> "none", readonly |-> FALSE, authorId |-> "", username |-> "",
              joinDate |-> 0, contentCreated |-> 0, history |-> <<>>]
NoAuthor == [loaded |-> FALSE, authorId |-> "", username |-> "", joinDate |-> 0,
             contentCreated |-> 0, history |-> <<>>]

\* AuthorManager.loadProfile: an absent or invalid file gives null
loadProfile(file) ==
    IF file.st = "ok"
    THEN [loaded |-> TRUE, authorId |-> file.authorId, username |-> file.username,
          joinDate |-> file.joinDate, contentCreated |-> file.contentCreated,
          history |-> file.history]
    ELSE NoAuthor

\* AuthorManager.generateAuthorId(username): `author_${username}_${hash}`,
\* the hash taken of the username and the time
generateAuthorId(username, now) == "author_" \o username \o "_" \o ToString(now)

\* one content-author process: the steps it reached, what loadConfig gave, the
\* error its catch showed, and its view of the profile file and of content/
CANew == [ran |-> <<>>, load |-> NotLoaded, threw |-> FALSE, error |-> NoError,
          results |-> <<>>, author |-> NoAuthor, profile |-> profile, content |-> content]

CAStep(r, name) == [r EXCEPT !.ran = Append(@, name)]
CAThrow(r, error) == [r EXCEPT !.threw = TRUE, !.error = error]

\* const config = await this.#configManager.loadConfig()
CALoadConfig(r) ==
    LET o == ConfigManagerLoadConfig(config)
        r1 == [CAStep(r, "loadConfig") EXCEPT !.load = o]
    IN IF o.ok THEN r1 ELSE CAThrow(r1, o.error)

\* AuthorManager.saveProfile: the profile is validated, written, then held;
\* a writeFile that fails is rethrown as AUTHOR_SAVE_FAILED and the profile
\* the process holds stays the one it held
saveProfile(r, author) ==
    IF r.profile.readonly
    THEN CAThrow(CAStep(r, "saveProfile"),
                 ContentAuthorError("ConfigError", "AUTHOR_SAVE_FAILED", <<>>))
    ELSE [CAStep(r, "saveProfile") EXCEPT
             !.profile = [st |-> "ok", readonly |-> FALSE, authorId |-> author.authorId,
                          username |-> author.username, joinDate |-> author.joinDate,
                          contentCreated |-> author.contentCreated,
                          history |-> author.history],
             !.author = [author EXCEPT !.loaded = TRUE]]

\* config.structure.defaultLanguage of a configuration that loadConfig accepts
DefaultLanguage == "ru"

\* the username answered to promptAuthorDetails
Username == "gopher"

\* ContentAuthor.init
init(r0) ==
    LET r1 == CALoadConfig(r0)
        r2 == CAStep(CAStep(r1, "showWelcome"), "loadProfile")
        author == loadProfile(r2.profile)
    IN IF r1.threw THEN r1
       ELSE IF author.loaded THEN CAStep([r2 EXCEPT !.author = author], "showAuthorProfile")
       ELSE saveProfile(CAStep(r2, "promptAuthorDetails"),
                        [loaded |-> TRUE, authorId |-> generateAuthorId(Username, clock),
                         username |-> Username, joinDate |-> clock,
                         contentCreated |-> 0, history |-> <<>>])

\* ContentAuthor.showHelp
showHelp(r0) ==
    LET r1 == CALoadConfig(r0)
    IN IF r1.threw THEN r1 ELSE CAStep(r1, "showHelp")

\* ContentAuthor.showStats: the configuration is not read
showStats(r0) ==
    LET r1 == CAStep(r0, "loadProfile")
        author == loadProfile(r1.profile)
    IN IF author.loaded THEN CAStep([r1 EXCEPT !.author = author], "showStats") ELSE r1

\* slugify(title, { lower: true, strict: true }) over the characters of the
\* title: letters are lowered, a space becomes a hyphen, any other character
\* that is not a letter or a digit is dropped
Lower(c) == CASE c = "I" -> "i" [] c = "T" -> "t" [] OTHER -> c

RECURSIVE Join(_)
Join(chars) == IF chars = <<>> THEN "" ELSE Head(chars) \o Join(Tail(chars))

Slugify(title) ==
    LET Keep(c) == c \notin {"!", "?", "."}
        Map(c) == IF c = " " THEN "-" ELSE Lower(c)
        kept == SelectSeq(title, Keep)
    IN Join([i \in 1..Len(kept) |-> Map(kept[i])])

\* String(moduleNumber).padStart(2, '0')
PadStart2(n) == IF n < 10 THEN "0" \o ToString(n) ELSE ToString(n)

\* ContentGenerator.generateSlug(title, moduleNumber)
generateSlug(title, moduleNumber) == PadStart2(moduleNumber) \o "-" \o Slugify(title)

\* the bodies of the two built-in templates as the tools count them
CategoryTemplateBody ==
    [words |-> 161, codeWords |-> 0, goBlocks |-> 0, examples |-> 0, exercises |-> 0,
     lorem |-> FALSE, headings |-> 7, todo |-> FALSE, missingSections |-> 4,
     noPackage |-> 0, uncheckedErr |-> 0, brokenLinks |-> 0, sections |-> NoSections]
TopicTemplateBody ==
    [words |-> 628, codeWords |-> 448, goBlocks |-> 7, examples |-> 3, exercises |-> 3,
     lorem |-> FALSE, headings |-> 25, todo |-> TRUE, missingSections |-> 0,
     noPackage |-> 1, uncheckedErr |-> 1, brokenLinks |-> 0,
     sections |-> [theory |-> "Theory", summary |-> "Summary",
                   examples |-> <<RunnableExample, RunnableExample, RunnableExample>>,
                   exercises |-> <<HintedExercise, EmptyExercise, EmptyExercise>>]]

\* TemplateManager.render(contentType, data): the file the template gives
render(contentType, data) ==
    [st |-> "ok",
     fm |-> [title |-> data.title, description |-> data.description,
             category |-> data.category.slug,
             slug |-> IF contentType = "topic" THEN data.slug ELSE "",
             module |-> IF contentType = "topic" THEN data.moduleNumber ELSE 0,
             difficulty |-> data.category.difficulty, authorId |-> data.authorId,
             language |-> data.language,
             tags |-> IF contentType = "topic"
                      THEN Tags(<<"golang", data.category.slug, "tutorial">>) ELSE NoTags],
     body |-> IF contentType = "topic" THEN TopicTemplateBody ELSE CategoryTemplateBody]

\* ContentGenerator.generateContent: mkdirSync(dirname(filePath), recursive)
\* and writeFile(filePath); mkdirSync throws when content/<slug> is a file
generateContent(r, contentType, data) ==
    LET c == data.category.slug
        r1 == CAStep(r, "generateContent")
        dir == IF r.content.cats[c].st = "dir" THEN r.content.cats[c]
               ELSE CatDir(NoFile, NoTopics)
        file == render(contentType, data)
        written == IF contentType = "topic"
                   THEN [dir EXCEPT !.topics[data.slug] = [exists |-> TRUE, topic |-> file]]
                   ELSE [dir EXCEPT !.index = file]
    IN IF r.content.exists /\ r.content.cats[c].st = "file"
       THEN CAThrow(r1, ContentAuthorError("ContentAuthorError",
                                           "CONTENT_GENERATION_FAILED", <<>>))
       ELSE [r1 EXCEPT !.content = [exists |-> TRUE,
                                    cats |-> [r.content.cats EXCEPT ![c] = written]]]

\* an updateStats that puts the new entry first
updateStatsPrepending(r, contentType, details) ==
    LET r1 == CAStep(r, "updateStats")
        entry == [type |-> contentType, title |-> details.title, slug |-> details.slug,
                  category |-> details.category]
        counted == [r.author EXCEPT !.contentCreated = @ + 1,
                                    !.history = <<entry>> \o @]
    IN IF ~r.author.loaded
       THEN CAThrow(r1, ContentAuthorError("ConfigError", "AUTHOR_NOT_LOADED", <<>>))
       ELSE saveProfile([r1 EXCEPT !.author = counted], counted)

\* AuthorManager.updateStats(contentType, contentDetails): the profile held
\* is counted up in place, then saved
updateStats(r, contentType, details) ==
    LET r1 == CAStep(r, "updateStats")
        entry == [type |-> contentType, title |-> details.title, slug |-> details.slug,
                  category |-> details.category]
        counted == [r.author EXCEPT !.contentCreated = @ + 1,
                                    !.history = Append(@, entry)]
    IN IF ~r.author.loaded
       THEN CAThrow(r1, ContentAuthorError("ConfigError", "AUTHOR_NOT_LOADED", <<>>))
       ELSE saveProfile([r1 EXCEPT !.author = counted], counted)

\* categories.find(c => c.slug === categorySlug)
FindCategory(cats, slug) == cats[CHOOSE i \in 1..Len(cats) :
                                   /\ cats[i].slug = slug
                                   /\ \A j \in 1..(i - 1) : cats[j].slug # slug]

\* ContentAuthor.createContent, the prompts answered with a category of the
\* config, a content type and, for a topic, its title, description and module
createContent(r0, categorySlug, contentType, topicData) ==
    LET r1 == CALoadConfig(r0)
        r2 == CAStep(r1, "loadProfile")
        author == loadProfile(r2.profile)
        r3 == CAStep([r2 EXCEPT !.author = author], "promptContentType")
        selectedCategory == FindCategory(config.val.cats, categorySlug)
        r4 == IF contentType = "topic" THEN CAStep(r3, "promptTopicDetails") ELSE r3
        contentDetails ==
            IF contentType = "topic"
            THEN [title |-> Join(topicData.title), description |-> topicData.description,
                  moduleNumber |-> topicData.moduleNumber,
                  slug |-> generateSlug(topicData.title, topicData.moduleNumber)]
            ELSE [title |-> selectedCategory.titleRu,
                  description |-> selectedCategory.descriptionRu,
                  moduleNumber |-> 0, slug |-> selectedCategory.slug]
        r5 == generateContent(r4, contentType,
                  [title |-> contentDetails.title, description |-> contentDetails.description,
                   moduleNumber |-> contentDetails.moduleNumber, slug |-> contentDetails.slug,
                   category |-> selectedCategory, language |-> DefaultLanguage,
                   authorId |-> r3.author.authorId])
        r6 == updateStats(r5, contentType,
                  [title |-> contentDetails.title, slug |-> contentDetails.slug,
                   category |-> selectedCategory.slug])
    IN IF r1.threw THEN r1
       ELSE IF ~author.loaded THEN r2
       ELSE IF r5.threw THEN r5
       ELSE IF r6.threw THEN r6
       ELSE CAStep(CAStep(r6, "showContentCreated"), "showNextSteps")

\* ConfigManager.getQualityStandards(): the quality section of the loaded
\* config, with the values content.config.json gives it
getQualityStandards == [minWords |-> 800, minCodeExamples |-> 3, minExercises |-> 2]

\* ContentValidator.validateContent(filePath): "passed", or the failure thrown
\* (its details.errors are absent for a file that does not exist)
validateContent(file) ==
    LET standards == getQualityStandards
        errors == (IF file.body.words < standards.minWords THEN <<"words">> ELSE <<>>)
               \o (IF file.body.goBlocks < standards.minCodeExamples
                   THEN <<"codeExamples">> ELSE <<>>)
               \o (IF file.body.exercises < standards.minExercises
                   THEN <<"exercises">> ELSE <<>>)
    IN IF file.st = "none" THEN [status |-> "failed", errors |-> <<>>]
       ELSE IF errors # <<>> THEN [status |-> "failed", errors |-> errors]
       ELSE [status |-> "passed", errors |-> <<>>]

\* the index.md that `content/${category.slug}/index.md` names
IndexOf(cont, slug) ==
    IF slug \in CatNames /\ cont.cats[slug].st = "dir" THEN cont.cats[slug].index ELSE NoFile

\* existsSync(`content/${category.slug}`)
CategoryPathExists(cont, slug) == slug \in CatNames /\ cont.cats[slug].st # "absent"

\* the loop of validateAll: a readFile failure has no details, so the catch
\* that records the result throws a TypeError of its own
RECURSIVE validateAllCategories(_, _)
validateAllCategories(r, cats) ==
    IF cats = <<>> \/ r.threw THEN r
    ELSE LET slug == Head(cats).slug
             file == IndexOf(r.content, slug)
         IN IF ~CategoryPathExists(r.content, slug) THEN validateAllCategories(r, Tail(cats))
            ELSE IF file.st = "unreadable"
            THEN CAThrow(r, ContentAuthorError("TypeError", "", <<>>))
            ELSE validateAllCategories(
                     [r EXCEPT !.results =
                          Append(@, [path |-> slug,
                                     status |-> validateContent(file).status,
                                     errors |-> validateContent(file).errors])],
                     Tail(cats))

\* ContentValidator.validateAll
validateAll(r) ==
    LET r1 == CAStep(r, "validateAll")
    IN IF ~r.content.exists
       THEN CAThrow(r1, ContentAuthorError("ValidationError", "VALIDATION_STRUCTURE_FAILED",
                                           <<"content">>))
       ELSE validateAllCategories(r1, config.val.cats)

\* ContentAuthor.validate
validate(r0) ==
    LET r1 == CALoadConfig(r0)
        r2 == validateAll(r1)
    IN IF r1.threw THEN r1
       ELSE IF r2.threw THEN r2
       ELSE CAStep(r2, "showValidationResults")

\* process.exit(1) in the catch of every command; a command that returns
\* ends the process with 0
CAExitCode(r) == IF r.threw THEN 1 ELSE 0

\* what the latest content-author invocation did, the profile it held when
\* it ended, and how many ran so far
CAIdle == [runs |-> 0, cmd |-> "", ran |-> <<>>, load |-> NotLoaded, exit |-> -1,
           error |-> NoError, results |-> <<>>, author |-> NoAuthor]

CADone(cmd, r) ==
    /\ ca' = [runs |-> ca.runs + 1, cmd |-> cmd, ran |-> r.ran, load |-> r.load,
              exit |-> CAExitCode(r), error |-> r.error, results |-> r.results,
              author |-> r.author]
    /\ profile' = r.profile
    /\ content' = r.content
    /\ UNCHANGED <<rootFs, config, build, clock, sv, cb, cc, export, gp, gv, sg, cf>>

\* the answers to promptTopicDetails
TopicAnswers ==
    {[title |-> <<"I", "n", "t", "r", "o">>, description |-> "D", moduleNumber |-> 1],
     [title |-> <<"T", "y", "p", "e", "s", "!">>, description |-> "", moduleNumber |-> 2]}

\* npm run author:init
AuthorInit == ca.runs < MaxInvocations /\ CADone("init", init(CANew))

\* npm run author:new
AuthorNew ==
    /\ ca.runs < MaxInvocations
    /\ \E c \in CatNames, contentType \in {"category", "topic"}, t \in TopicAnswers :
          /\ ConfigManagerLoadConfig(config).ok =>
                \E i \in 1..Len(config.val.cats) : config.val.cats[i].slug = c
          /\ CADone("new", createContent(CANew, c, contentType, t))

\* the answers to promptTopicDetails for the modules of the next range
LaterTopicAnswers ==
    {[title |-> <<"I", "n", "t", "r", "o">>, description |-> "D", moduleNumber |-> 16],
     [title |-> <<"T", "y", "p", "e", "s", "!">>, description |-> "", moduleNumber |-> 17]}

\* npm run author:new for a topic of any of these modules
AuthorNewTopic ==
    /\ ca.runs < MaxInvocations
    /\ \E c \in CatNames, t \in TopicAnswers \cup LaterTopicAnswers :
          /\ ConfigManagerLoadConfig(config).ok =>
                \E i \in 1..Len(config.val.cats) : config.val.cats[i].slug = c
          /\ CADone("new", createContent(CANew, c, "topic", t))

\* npm run author:validate
AuthorValidate == ca.runs < MaxInvocations /\ CADone("validate", validate(CANew))

\* npm run author:stats
AuthorStats == ca.runs < MaxInvocations /\ CADone("stats", showStats(CANew))

\* npm run author:help
AuthorHelp == ca.runs < MaxInvocations /\ CADone("help", showHelp(CANew))

----------------------------------------------------------------------------
(* Content checker: src/scripts/content-checker.js.  A markdown file of    *)
(* content/ is named by [cat, topic]: content/<cat>/<topic>/topic.md, and  *)
(* content/<cat>/index.md when topic is "".                                *)

MdPath(cat, topic) == [cat |-> cat, topic |-> topic]

FileAt(path) ==
    IF path.topic = "" THEN content.cats[path.cat].index
    ELSE content.cats[path.cat].topics[path.topic].topic

\* new ContentChecker(), and where its run() is
CCNew == [pc |-> "scan", files |-> <<>>, issues |-> <<>>, warnings |-> <<>>,
          stats |-> [totalFiles |-> 0, checkedFiles |-> 0, issues |-> 0, warnings |-> 0],
          threw |-> FALSE, reported |-> FALSE, exit |-> -1]

addIssue(s, file, message) ==
    [s EXCEPT !.issues = Append(@, [file |-> file, message |-> message]),
              !.stats.issues = @ + 1]

\* addWarning, n times with the same message
RECURSIVE addWarningTimes(_, _, _, _)
addWarningTimes(s, file, message, n) ==
    IF n = 0 THEN s
    ELSE addWarningTimes([s EXCEPT !.warnings = Append(@, [file |-> file, message |-> message]),
                                   !.stats.warnings = @ + 1],
                         file, message, n - 1)

CCWarning(s, file, message) == addWarningTimes(s, file, message, 1)

\* description.length of the descriptions the files carry
StrLen(str) == CASE str = "" -> 0 [] str = "D" -> 1 [] OTHER -> 60

FrontmatterRequired == <<"title", "description", "authorId", "category">>

\* the required-field loop stopping at the first missing field
checkRequiredFieldsFirstOnly(s, fm, file, fields) ==
    LET missing == SelectSeq(fields, LAMBDA f : fm[f] = "")
    IN IF missing = <<>> THEN s ELSE addIssue(s, file, Head(missing))

RECURSIVE checkRequiredFields(_, _, _, _)
checkRequiredFields(s, fm, file, fields) ==
    IF fields = <<>> THEN s
    ELSE checkRequiredFields(IF fm[Head(fields)] = "" THEN addIssue(s, file, Head(fields))
                             ELSE s,
                             fm, file, Tail(fields))

checkFrontmatter(s, fm, file) ==
    LET s1 == checkRequiredFields(s, fm, file, FrontmatterRequired)
    IN IF fm.description # "" /\ StrLen(fm.description) < 50
       THEN CCWarning(s1, file, "description") ELSE s1

\* markdown.split(/\s+/): the words of the body, those of code blocks included
CheckerWords(body) == body.words + body.codeWords

MinWordsChecked == 800
MinHeadings == 3
MinGoBlocks == 3

checkContent(s, body, file) ==
    LET s1 == IF CheckerWords(body) < MinWordsChecked THEN addIssue(s, file, "words") ELSE s
        s2 == IF body.headings < MinHeadings THEN CCWarning(s1, file, "headings") ELSE s1
        s3 == IF body.todo THEN CCWarning(s2, file, "TODO") ELSE s2
    IN IF body.lorem THEN addIssue(s3, file, "lorem") ELSE s3

checkStructure(s, body, file) == addWarningTimes(s, file, "section", body.missingSections)

checkCodeExamples(s, body, file) ==
    LET s1 == IF body.goBlocks < MinGoBlocks THEN addIssue(s, file, "codeExamples") ELSE s
    IN addWarningTimes(addWarningTimes(s1, file, "package", body.noPackage),
                       file, "err", body.uncheckedErr)

checkLinks(s, body, file) == addWarningTimes(s, file, "link", body.brokenLinks)

\* checkFile with the failure of readFile or matter swallowed
checkFileSwallowing(s, path) ==
    LET file == FileAt(path)
    IN IF file.st # "ok" THEN s
       ELSE checkLinks(checkCodeExamples(checkStructure(checkContent(
                checkFrontmatter(s, file.fm, path), file.body, path), file.body, path),
                file.body, path), file.body, path)

\* ContentChecker.checkFile: a failure of readFile or matter is caught and
\* recorded as an issue of the file
checkFile(s, path) ==
    LET file == FileAt(path)
    IN IF file.st # "ok" THEN addIssue(s, path, "read")
       ELSE checkLinks(checkCodeExamples(checkStructure(checkContent(
                checkFrontmatter(s, file.fm, path), file.body, path), file.body, path),
                file.body, path), file.body, path)

\* findMarkdownFiles over one category directory: readdir lists the topic
\* directories before index.md
MarkdownFilesOf(cat) ==
    LET dir == content.cats[cat]
        topics == SelectSeq(TopicOrder, LAMBDA t : dir.topics[t].exists
                                                   /\ dir.topics[t].topic.st # "none")
    IN [i \in 1..Len(topics) |-> MdPath(cat, topics[i])]
       \o (IF dir.index.st # "none" THEN <<MdPath(cat, "")>> ELSE <<>>)

\* ContentChecker.findMarkdownFiles('content')
findMarkdownFiles ==
    LET cats == SelectSeq(CatOrder, LAMBDA c : content.cats[c].st = "dir")
    IN Concat([i \in 1..Len(cats) |-> MarkdownFilesOf(cats[i])])

\* readdir throws on a directory that cannot be listed
ScanThrows == \E c \in CatNames : content.cats[c].st = "dir" /\ ~content.cats[c].listable

\* run(), up to the loop: with no content/ it reports the failure and returns
CCScan ==
    /\ cc.pc = "scan"
    /\ cc' = IF ~content.exists THEN [cc EXCEPT !.pc = "done", !.exit = 0]
             ELSE IF ScanThrows THEN [cc EXCEPT !.pc = "done", !.threw = TRUE, !.exit = 1]
             ELSE [cc EXCEPT !.pc = "check", !.files = findMarkdownFiles,
                             !.stats.totalFiles = Len(findMarkdownFiles)]
    /\ UNCHANGED <<env, build, clock, sv, cb, ca, profile, export, gp, gv, sg, cf>>

\* one turn of the loop of run()
CCCheckFile ==
    /\ cc.pc = "check"
    /\ cc.stats.checkedFiles < Len(cc.files)
    /\ cc' = [checkFile(cc, cc.files[cc.stats.checkedFiles + 1]) EXCEPT
                 !.stats.checkedFiles = @ + 1]
    /\ UNCHANGED <<env, build, clock, sv, cb, ca, profile, export, gp, gv, sg, cf>>

\* process.exit(this.issues.length > 0 ? 1 : 0)
CCExitCode(s) == IF Len(s.issues) > 0 THEN 1 ELSE 0

\* run() after the loop: printResults and the exit
CCReport ==
    /\ cc.pc = "check"
    /\ cc.stats.checkedFiles = Len(cc.files)
    /\ cc' = [cc EXCEPT !.pc = "done", !.reported = TRUE, !.exit = CCExitCode(cc)]
    /\ UNCHANGED <<env, build, clock, sv, cb, ca, profile, export, gp, gv, sg, cf>>

----------------------------------------------------------------------------
(* GoDojo validator: scripts/godojo-validator.js, class GoDojoValidator *)

\* GoDojoValidator.requirements.content: fixed in the constructor, not read
\* from content.config.json
requirements == [minWordsPerTopic |-> 800, minCodeExamples |-> 3, minExercises |-> 2]

\* markdown.split(/\s+/) of the text after the front matter: the words of the
\* fenced code blocks are counted with the prose
GoDojoWords(body) == body.words + body.codeWords

\* GoDojoValidator.validateContent(markdown, filePath): the errors it adds, in
\* order (the documents of the model hold no import forbidden by the playground)
GoDojoValidateContent(body) ==
    (IF GoDojoWords(body) < requirements.minWordsPerTopic THEN <<"words">> ELSE <<>>)
    \o (IF body.goBlocks < requirements.minCodeExamples THEN <<"codeExamples">> ELSE <<>>)
    \o (IF body.exercises < requirements.minExercises THEN <<"exercises">> ELSE <<>>)

----------------------------------------------------------------------------
(* Exporter: scripts/godojo-validator.js, class GoDojoPrepare.  It reads   *)
(* build/ and writes godojo-export/: metadata/platform.json, one           *)
(* content/<category>/<slug>.json per built topic, search/index.json,      *)
(* search/autocomplete.json, package.json and export-report.json.          *)

NoExport == [exists |-> FALSE, subdirs |-> {}, platform |-> NoJson, topicFiles |-> {},
             searchIndex |-> NoJson, autocomplete |-> NoJson, package |-> NoJson,
             report |-> NoJson]

NoExportStats == [categories |-> 0, topics |-> 0, exercises |-> 0, codeExamples |-> 0,
                  totalSize |-> 0]

\* new GoDojoPrepare(), with the run's view of godojo-export/ in out
GPNew == [stats |-> NoExportStats, threw |-> FALSE, exited |-> FALSE, ran |-> <<>>,
          out |-> export]

GPThrow(r) == [r EXCEPT !.threw = TRUE]

\* existsSync('build/manifest.json')
checkBuild == build.exists /\ build.manifest.exists

\* mkdir of godojo-export and of its four subdirectories, each when missing
ensureExportDir(r) ==
    [r EXCEPT !.out.exists = TRUE,
              !.out.subdirs = @ \cup {"content", "metadata", "search", "assets"}]

\* writes metadata/platform.json from build/manifest.json
generatePlatformMetadata(r, now) ==
    LET manifest == build.manifest.val
        platformMeta == [version |-> "v1", generated |-> now, language |-> "ru",
                         sourceVersion |-> manifest.version,
                         available |-> manifest.stats.topics,
                         range |-> manifest.modulesRange]
    IN [r EXCEPT !.out.platform = [exists |-> TRUE, val |-> platformMeta]]

\* marked(text || ''): an empty text renders as the empty string
marked(text) == IF text = "" THEN "" ELSE "<p>" \o text \o "</p>"
\* marked over a text kept as blocks or paragraphs
markedBlocks(blocks) == [i \in 1..Len(blocks) |-> [html |-> "p", of |-> blocks[i]]]

\* text.includes(marker), for a line of code: the marker stands on a line of
\* its own or opens the body of main
TextIncludes(text, marker) == text = marker \/ text = marker \o " {"
\* code.includes(marker)
Includes(code, marker) == \E i \in 1..Len(code) : TextIncludes(code[i].text, marker)

\* code.split('\n'): the empty string splits into one empty line
SplitLines(code) == IF code = <<>> THEN <<Line("")>> ELSE code
Indented(line, n) == [line EXCEPT !.indent = @ + n]

\* GoDojoPrepare.isRunnableCode(code)
isRunnableCode(code) == Includes(code, "package main") /\ Includes(code, "func main()")

\* a template that wraps the code in the body of main only
generatePlaygroundTemplateBodyOnly(code) ==
    IF Includes(code, "package main") /\ Includes(code, "func main()") THEN code
    ELSE <<Line("func main() {")>>
         \o [i \in 1..Len(SplitLines(code)) |-> Indented(SplitLines(code)[i], 4)]
         \o <<Line("}")>>

\* GoDojoPrepare.generatePlaygroundTemplate(code): a complete program as it
\* is, anything else inside the body of main, each line four spaces deeper
\* and the first one four more
generatePlaygroundTemplate(code) ==
    IF Includes(code, "package main") /\ Includes(code, "func main()") THEN code
    ELSE LET lines == SplitLines(code)
             body == [i \in 1..Len(lines) |->
                        Indented(lines[i], IF i = 1 THEN 8 ELSE 4)]
         IN <<Line("package main"), Line(""), Line("import ("),
              Indented(Line("\"fmt\""), 4), Line(")"), Line(""), Line("func main() {")>>
            \o body \o <<Line("}")>>

\* an optional derived value: null, or the value
Null == [present |-> FALSE, val |-> <<>>]
Some(v) == [present |-> TRUE, val |-> v]

\* GoDojoPrepare.extractExpectedOutput(explanation): the text of the first
\* fenced block labelled text, bash, output or not at all; null without one
extractExpectedOutput(explanation) ==
    LET out == Filter(explanation,
                      LAMBDA b : b.fence /\ b.label \in {"", "text", "bash", "output"})
    IN IF out = <<>> THEN Null ELSE Some(Head(out).lines)

\* GoDojoPrepare.extractHints(content): the lines under each hint marker,
\* without their list bullets, the empty ones dropped
RECURSIVE extractHints(_)
extractHints(paragraphs) ==
    IF paragraphs = <<>> THEN <<>>
    ELSE LET p == Head(paragraphs)
             texts == [i \in 1..Len(p.lines) |-> p.lines[i].text]
         IN (IF p.hint THEN Filter(texts, LAMBDA t : t # "") ELSE <<>>)
            \o extractHints(Tail(paragraphs))

\* word.toLowerCase(), for the words of the exercise titles
LowerWord(word) ==
    CASE word = "Bazovye" -> "bazovye"
      [] word = "Funkcii" -> "funkcii"
      [] word = "Srezy" -> "srezy"
      [] OTHER -> word
\* title.toLowerCase().includes(stem), the title as its words
TitleIncludes(title, stem) ==
    \E i \in 1..Len(title) :
        \/ stem = "bazov" /\ LowerWord(title[i]) \in {"bazovye", "bazovaya"}
        \/ stem = "funkci" /\ LowerWord(title[i]) \in {"funkcii", "funkciya"}

\* GoDojoPrepare.generateExerciseTests(exercise): the types of the tests
generateExerciseTests(exercise) ==
    (IF TitleIncludes(exercise.title, "bazov") THEN <<"compile">> ELSE <<>>)
    \o (IF TitleIncludes(exercise.title, "funkci") THEN <<"function_exists">> ELSE <<>>)
    \o <<"run">>

findPreviousTopic(topic) == IF topic.module > 1 THEN Some(topic.module - 1) ELSE Null
findNextTopic(topic) == IF topic.module < TotalModules THEN Some(topic.module + 1) ELSE Null

\* GoDojoPrepare.optimizeTopic(topic)
optimizeTopic(topic) ==
    LET examples == [i \in 1..Len(topic.content.examples) |->
                        LET example == topic.content.examples[i]
                        IN [title |-> example.title, code |-> example.code,
                            explanation |-> example.explanation,
                            explanationHtml |-> markedBlocks(example.explanation),
                            playground |->
                                [template |-> generatePlaygroundTemplate(example.code),
                                 runnable |-> isRunnableCode(example.code),
                                 expectedOutput |->
                                     extractExpectedOutput(example.explanation)]]]
        exercises == [i \in 1..Len(topic.content.exercises) |->
                        LET exercise == topic.content.exercises[i]
                        IN [number |-> exercise.number, title |-> exercise.title,
                            content |-> exercise.content,
                            contentHtml |-> markedBlocks(exercise.content),
                            hints |-> extractHints(exercise.content),
                            tests |-> generateExerciseTests(exercise)]]
    IN [slug |-> topic.slug, title |-> topic.title, module |-> topic.module,
        category |-> topic.category, difficulty |-> topic.difficulty,
        description |-> topic.description, tags |-> topic.tags, stats |-> topic.stats,
        content |-> [theory |-> topic.content.theory, summary |-> topic.content.summary,
                     theoryHtml |-> marked(topic.content.theory),
                     summaryHtml |-> marked(topic.content.summary),
                     examples |-> examples, exercises |-> exercises],
        navigation |-> [previous |-> findPreviousTopic(topic),
                        next |-> findNextTopic(topic), category |-> topic.category],
        progress |-> [estimatedMinutes |-> 30, difficulty |-> topic.difficulty,
                      requiredForCertificate |-> topic.module <= 60,
                      bonusContent |-> topic.module > 60]]

\* text.toLowerCase(), for the texts of the model
LowerText(text) ==
    CASE text = "T" -> "t"
      [] text = "D" -> "d"
      [] text = "Theory" -> "theory"
      [] text = "Summary" -> "summary"
      [] OTHER -> text

\* GoDojoPrepare.generateSearchText(topic): the spread of topic.tags throws
\* when the topic has no tags; else the non-empty parts, lower-cased, in order
generateSearchText(topic) ==
    IF ~topic.tags.present THEN Null
    ELSE LET parts == <<topic.title, topic.description, topic.content.theory,
                        topic.content.summary>> \o topic.tags.val
             kept == Filter(parts, LAMBDA t : t # "")
         IN Some([i \in 1..Len(kept) |-> LowerText(kept[i])])

difficultyWeight(difficulty) ==
    CASE difficulty = "Beginner" -> 10
      [] difficulty = "Intermediate" -> 8
      [] difficulty = "Advanced" -> 6
      [] OTHER -> 5

\* `${topic.category}_${topic.slug}`
SearchId(topic) == topic.category \o "_" \o FileName(topic.slug)

SearchDocument(topic) ==
    [id |-> SearchId(topic), title |-> topic.title, description |-> topic.description,
     category |-> topic.category, module |-> topic.module,
     difficulty |-> topic.difficulty,
     tags |-> IF topic.tags.present THEN topic.tags.val ELSE <<>>,
     searchText |-> generateSearchText(topic).val,
     weight |-> [module |-> topic.module,
                 difficulty |-> difficultyWeight(topic.difficulty)]]

\* readdir order of the directories under godojo-export/content and of the
\* file names in them
ExportDirOrder == <<"basics", "content", "web">>
SlugOrder == <<"http", "intro", "types", "undefined">>

\* the topic files of godojo-export/content as generateSearchIndexes reads
\* them: category directories in readdir order, the files of each in order
RECURSIVE ExportedTopics(_, _)
ExportedTopics(files, cats) ==
    IF cats = <<>> THEN <<>>
    ELSE LET names == Listing(SlugOrder, {f.path.name : f \in {g \in files :
                                                          g.path.dir = Head(cats)}})
         IN [i \in 1..Len(names) |->
                (CHOOSE f \in files :
                    f.path = [dir |-> Head(cats), name |-> names[i]]).rec]
            \o ExportedTopics(files, Tail(cats))

\* GoDojoPrepare.optimizeContent: topics-index.json is read unguarded; a topic
\* of the index whose JSON file is not in build/topics is passed over
RECURSIVE optimizeTopics(_, _)
optimizeTopics(r, index) ==
    IF index = <<>> THEN r
    ELSE LET topicMeta == Head(index)
             topicPath == [dir |-> topicMeta.category, name |-> FileName(topicMeta.slug)]
             found == {f \in build.topicFiles : f.path = topicPath}
         IN IF found = {} THEN optimizeTopics(r, Tail(index))
            ELSE LET optimized == optimizeTopic((CHOOSE f \in found : TRUE).rec)
                 IN optimizeTopics(
                        [r EXCEPT !.out.topicFiles = WriteFile(@, topicPath, optimized),
                                  !.stats.topics = @ + 1,
                                  !.stats.exercises = @ + Len(optimized.content.exercises),
                                  !.stats.codeExamples =
                                      @ + Len(optimized.content.examples)],
                        Tail(index))

optimizeContent(r) ==
    IF ~build.topicsIndex.exists THEN GPThrow(r)
    ELSE optimizeTopics(r, build.topicsIndex.val)

\* GoDojoPrepare.generateSearchIndexes: one document per topic file found
\* under godojo-export/content; both index files are written after the loop
generateSearchIndexes(r, now) ==
    LET topics == ExportedTopics(r.out.topicFiles,
                                 Listing(ExportDirOrder,
                                         {f.path.dir : f \in r.out.topicFiles}))
        documents == [i \in 1..Len(topics) |-> SearchDocument(topics[i])]
        autocomplete == [i \in 1..Len(topics) |->
                            [id |-> documents[i].id, title |-> documents[i].title,
                             category |-> documents[i].category,
                             module |-> documents[i].module]]
    IN IF \E i \in 1..Len(topics) : ~generateSearchText(topics[i]).present
       THEN GPThrow(r)
       ELSE [r EXCEPT !.out.searchIndex =
                          [exists |-> TRUE,
                           val |-> [version |-> "1.0", generated |-> now,
                                    documents |-> documents]],
                      !.out.autocomplete = [exists |-> TRUE, val |-> autocomplete]]

\* GoDojoPrepare.countFiles: every file under godojo-export/
countFiles(out) ==
    Cardinality(out.topicFiles)
    + Cardinality({f \in {"platform", "searchIndex", "autocomplete", "package", "report"} :
                      out[f].exists})

createUploadPackage(r, now) ==
    [r EXCEPT !.out.package =
        [exists |-> TRUE,
         val |-> [type |-> "godojo-content-package", version |-> "1.0", created |-> now,
                  checksum |-> "checksum-placeholder", totalSize |-> r.stats.totalSize,
                  fileCount |-> countFiles(r.out)]]]

generateReport(r, now) ==
    [r EXCEPT !.out.report =
        [exists |-> TRUE,
         val |-> [generated |-> now, stats |-> r.stats, readyForUpload |-> TRUE]]]

\* one step of run(), skipped once an earlier step threw
GPStep(r, name, after) ==
    IF r.threw THEN r ELSE [after EXCEPT !.ran = Append(r.ran, name)]

\* the steps of run() once the build was found
GPRunWithBuild(now) ==
    LET r1 == GPStep(GPNew, "ensureExportDir", ensureExportDir(GPNew))
        r2 == GPStep(r1, "generatePlatformMetadata", generatePlatformMetadata(r1, now))
        r3 == GPStep(r2, "optimizeContent", optimizeContent(r2))
        r4 == GPStep(r3, "generateSearchIndexes", generateSearchIndexes(r3, now))
        r5 == GPStep(r4, "createUploadPackage", createUploadPackage(r4, now))
        r6 == GPStep(r5, "generateReport", generateReport(r5, now))
    IN r6

\* a run that creates the export directory before it looks for the build
GPRunCreatingFirst(now) ==
    IF ~checkBuild THEN [ensureExportDir(GPNew) EXCEPT !.exited = TRUE]
    ELSE GPRunWithBuild(now)

\* GoDojoPrepare.run() of a fresh process, at time now: without
\* build/manifest.json it exits with 1 at once
GPRun(now) ==
    IF ~checkBuild THEN [GPNew EXCEPT !.exited = TRUE]
    ELSE GPRunWithBuild(now)

\* process.exit(1) without a build and in run's catch; else the process ends with 0
GPExitCode(r) == IF r.exited \/ r.threw THEN 1 ELSE 0

\* what an exporter run left behind: runs and deleted count the steps taken,
\* prev is godojo-export/ and seen is build/ as the latest run found them
GPIdle == [runs |-> 0, deleted |-> 0, exit |-> -1, prev |-> NoExport, seen |-> NoBuild,
           last |-> [GPNew EXCEPT !.out = NoExport]]

Prepare ==
    /\ gp.runs < MaxExports
    /\ LET r == GPRun(clock + 1)
       IN /\ export' = r.out
          /\ gp' = [gp EXCEPT !.runs = @ + 1, !.exit = GPExitCode(r), !.prev = export,
                              !.seen = build, !.last = [r EXCEPT !.out = NoExport]]
    /\ clock' = clock + 1
    /\ UNCHANGED <<env, build, sv, cb, ca, cc, profile, gv, sg, cf>>

\* The environment between runs: a topic JSON file is deleted from build/topics
DeleteBuiltTopic ==
    /\ gp.deleted < MaxDeleted
    /\ \E f \in build.topicFiles : build' = [build EXCEPT !.topicFiles = @ \ {f}]
    /\ gp' = [gp EXCEPT !.deleted = @ + 1]
    /\ UNCHANGED <<env, clock, sv, cb, ca, cc, profile, export, gv, sg, cf>>

----------------------------------------------------------------------------
(* GoDojo validator: scripts/godojo-validator.js, class GoDojoValidator.   *)
(* One run checks content/ and content.config.json, or godojo-export/.     *)
(* An error, a warning or a passed check is kept with the check that added *)
(* it; read lists the trees the run read with readFile or readdir.         *)

GVNew == [errors |-> <<>>, warnings |-> <<>>, passed |-> <<>>, read |-> {},
          ran |-> <<>>, threw |-> FALSE]

GVFinding(by, msg, at) == [by |-> by, msg |-> msg, at |-> at]
GVAddError(v, by, msg, at) == [v EXCEPT !.errors = Append(@, GVFinding(by, msg, at))]
GVAddWarning(v, by, msg, at) == [v EXCEPT !.warnings = Append(@, GVFinding(by, msg, at))]
GVAddPassed(v, by, msg) == [v EXCEPT !.passed = Append(@, GVFinding(by, msg, ""))]
GVRead(v, tree) == [v EXCEPT !.read = @ \cup {tree}]
GVCalled(v, name) == [v EXCEPT !.ran = Append(@, name)]

\* existsSync('godojo-export/package.json')
checkExport == export.package.exists

LowerLetters ==
    {"a", "b", "c", "d", "e", "f", "g", "h", "i", "j", "k", "l", "m", "n", "o", "p", "q",
     "r", "s", "t", "u", "v", "w", "x", "y", "z"}

\* requirements.structure.fileNamePattern: /^[a-z0-9-]+$/
fileNamePattern(name) ==
    LET c == Chars(name)
    IN Len(c) >= 1 /\ \A i \in 1..Len(c) : c[i] \in LowerLetters \cup Digits \cup {"-"}

\* the directories checkDir('content') meets, in readdir order
ContentDirs ==
    LET cats == Listing(CatOrder, {c \in CatNames : content.cats[c].st = "dir"})
        RECURSIVE Walk(_)
        Walk(cs) == IF cs = <<>> THEN <<>>
                    ELSE <<Head(cs)>>
                         \o Listing(TopicOrder, TopicDirsOf(content.cats[Head(cs)]))
                         \o Walk(Tail(cs))
    IN Walk(cats)

\* GoDojoValidator.validateStructure('content'): readdir throws when content/
\* is absent or a directory cannot be listed
validateStructure(v) ==
    LET v1 == GVRead(GVCalled(v, "validateStructure"), "content")
        dirs == ContentDirs
        misnamed == SelectSeq(dirs, LAMBDA d : ~fileNamePattern(d))
        RECURSIVE Warn(_, _)
        Warn(w, ds) == IF ds = <<>> THEN w
                       ELSE Warn(GVAddWarning(w, "validateStructure", "directory name",
                                              Head(ds)),
                                 Tail(ds))
    IN IF ~content.exists
          \/ \E c \in CatNames : content.cats[c].st = "dir" /\ ~content.cats[c].listable
       THEN [v1 EXCEPT !.threw = TRUE]
       ELSE GVAddPassed(Warn(v1, misnamed), "validateStructure", "structure")

\* GoDojoValidator.findMarkdownFiles('content'): under each category the
\* topic.md files of its topic directories, then its index.md
GVFindMarkdownFiles ==
    LET cats == Listing(CatOrder, {c \in CatNames : content.cats[c].st = "dir"})
        TopicsOf(c) ==
            LET ts == Listing(TopicOrder, {t \in TopicDirsOf(content.cats[c]) :
                                              content.cats[c].topics[t].topic.st # "none"})
            IN [i \in 1..Len(ts) |-> MdPath(c, ts[i])]
        IndexOfCat(c) == IF content.cats[c].index.st # "none" THEN <<MdPath(c, "")>> ELSE <<>>
        RECURSIVE Walk(_)
        Walk(cs) == IF cs = <<>> THEN <<>>
                    ELSE TopicsOf(Head(cs)) \o IndexOfCat(Head(cs)) \o Walk(Tail(cs))
    IN Walk(cats)

metadataRequiredFields ==
    <<"title", "description", "module", "category", "difficulty", "authorId", "language">>

\* GoDojoValidator.validateFrontmatter: every required field that is absent,
\* then the values of difficulty, language and module
validateFrontmatter(v, fm, at) ==
    LET Lacks(f) == IF f = "module" THEN fm.module = 0 ELSE fm[f] = ""
        missing == SelectSeq(metadataRequiredFields, Lacks)
        RECURSIVE Add(_, _)
        Add(w, fs) == IF fs = <<>> THEN w
                      ELSE Add(GVAddError(w, "validateMarkdownFile", Head(fs), at), Tail(fs))
        v1 == Add(v, missing)
        v2 == IF fm.difficulty # "" /\ fm.difficulty \notin Difficulties
              THEN GVAddError(v1, "validateMarkdownFile", "bad difficulty", at) ELSE v1
        v3 == IF fm.language # "" /\ fm.language \notin {"ru", "en"}
              THEN GVAddError(v2, "validateMarkdownFile", "bad language", at) ELSE v2
    IN IF fm.module # 0 /\ (fm.module < 1 \/ fm.module > TotalModules)
       THEN GVAddError(v3, "validateMarkdownFile", "bad module", at) ELSE v3

\* GoDojoValidator.validateMarkdownFile(filePath); the files of the model
\* all open with a front matter block
validateMarkdownFile(v, at) ==
    LET file == FileAt(at)
        v1 == validateFrontmatter(v, file.fm, at)
        found == GoDojoValidateContent(file.body)
        RECURSIVE Add(_, _)
        Add(w, es) == IF es = <<>> THEN w
                      ELSE Add(GVAddError(w, "validateMarkdownFile", Head(es), at), Tail(es))
        v2 == Add(v1, found)
    IN IF file.st = "unreadable" THEN GVAddError(v, "validateMarkdownFile", "read", at)
       ELSE IF file.body.missingSections > 0
       THEN GVAddWarning(v2, "validateMarkdownFile", "section", at)
       ELSE v2

structureValidCategories == {"basics", "advanced", "web", "concurrency", "testing"}

\* GoDojoValidator.validateConfiguration: a structure section that is not
\* "ok" has no defaultLanguage; a text that does not parse, the value null
\* and a categories value that cannot be iterated end in the catch
GVValidateConfiguration(v) ==
    LET v1 == GVCalled(v, "validateConfiguration")
        v2 == GVRead(v1, "content.config.json")
        v3 == IF config.val.structure # "ok"
              THEN GVAddError(v2, "validateConfiguration", "structure", "") ELSE v2
        odd == SelectSeq(config.val.cats, LAMBDA c : c.slug \notin structureValidCategories)
        RECURSIVE Warn(_, _)
        Warn(w, cs) == IF cs = <<>> THEN w
                       ELSE Warn(GVAddWarning(w, "validateConfiguration", "category",
                                              Head(cs).slug),
                                 Tail(cs))
    IN IF config.st = "missing"
       THEN GVAddError(v1, "validateConfiguration", "no content.config.json", "")
       ELSE IF config.st # "object"
       THEN GVAddError(v2, "validateConfiguration", "parse", "")
       ELSE IF config.val.catsKind = "mistyped"
       THEN GVAddError(v3, "validateConfiguration", "parse", "")
       ELSE GVAddPassed(Warn(v3, odd), "validateConfiguration", "configuration")

\* GoDojoValidator.validateSource
validateSource(v) ==
    LET v1 == validateStructure(v)
        files == GVFindMarkdownFiles
        RECURSIVE Each(_, _)
        Each(w, fs) == IF fs = <<>> THEN w ELSE Each(validateMarkdownFile(w, Head(fs)), Tail(fs))
    IN IF v1.threw THEN v1
       ELSE GVValidateConfiguration(Each(GVCalled(v1, "validateMarkdownFile"), files))

\* GoDojoValidator.validatePackage
validatePackage(v) ==
    LET v1 == GVRead(GVCalled(v, "validatePackage"), "godojo-export")
        pkg == export.package.val
        v2 == IF pkg.type # "godojo-content-package"
              THEN GVAddError(v1, "validatePackage", "package type", "") ELSE v1
        v3 == IF pkg.checksum = ""
              THEN GVAddWarning(v2, "validatePackage", "checksum", "") ELSE v2
    IN GVAddPassed(v3, "validatePackage", "package")

\* GoDojoValidator.validateMetadata
validateMetadata(v) ==
    LET v1 == GVCalled(v, "validateMetadata")
        v2 == GVRead(v1, "godojo-export")
        meta == export.platform.val
        v3 == IF meta.version # "v1"
              THEN GVAddWarning(v2, "validateMetadata", "version", "") ELSE v2
        v4 == IF meta.language # "ru"
              THEN GVAddError(v3, "validateMetadata", "language", "") ELSE v3
    IN IF ~export.platform.exists
       THEN GVAddError(v1, "validateMetadata", "no platform.json", "")
       ELSE GVAddPassed(v4, "validateMetadata", "metadata")

\* !content.content || !content.content.theoryHtml, of an exported topic
\* file: the empty string is falsy
BadContentStructure(rec) == rec.content.theoryHtml = ""

\* GoDojoValidator.validateExportedContent: every .json file under
\* godojo-export/content
validateExportedContent(v) ==
    LET v1 == GVCalled(v, "validateExportedContent")
        v2 == GVRead(v1, "godojo-export")
        files == ExportedTopics(export.topicFiles,
                                Listing(ExportDirOrder,
                                        {f.path.dir : f \in export.topicFiles}))
        RECURSIVE Each(_, _)
        Each(w, fs) ==
            IF fs = <<>> THEN w
            ELSE Each(IF BadContentStructure(Head(fs))
                      THEN GVAddError(w, "validateExportedContent", "content structure",
                                      SearchId(Head(fs)))
                      ELSE w,
                      Tail(fs))
        validFiles == Cardinality({i \in 1..Len(files) : ~BadContentStructure(files[i])})
        v3 == Each(v2, files)
    IN IF "content" \notin export.subdirs
       THEN GVAddError(v1, "validateExportedContent", "no content directory", "")
       ELSE IF validFiles > 0
       THEN GVAddPassed(v3, "validateExportedContent", "valid files")
       ELSE v3

\* GoDojoValidator.validateSearchIndexes
validateSearchIndexes(v) ==
    LET v1 == GVCalled(v, "validateSearchIndexes")
        v2 == GVRead(v1, "godojo-export")
    IN IF ~export.searchIndex.exists
       THEN GVAddWarning(v1, "validateSearchIndexes", "no search index", "")
       ELSE IF export.searchIndex.val.documents = <<>>
       THEN GVAddError(v2, "validateSearchIndexes", "empty search index", "")
       ELSE GVAddPassed(v2, "validateSearchIndexes", "search index")

\* GoDojoValidator.validateSizes
validateSizes(v) == GVAddPassed(GVCalled(v, "validateSizes"), "validateSizes", "sizes")

\* GoDojoValidator.validateExport
validateExport(v) ==
    validateSizes(validateSearchIndexes(validateExportedContent(validateMetadata(
        validatePackage(v)))))

\* a run that checks the sources and then the export when there is one
GVRunBoth ==
    LET v == validateSource(GVNew)
    IN IF v.threw \/ ~checkExport THEN v ELSE validateExport(v)

\* GoDojoValidator.run()
GVRun == IF checkExport THEN validateExport(GVNew) ELSE validateSource(GVNew)

\* process.exit(this.errors.length > 0 ? 1 : 0), and process.exit(1) in the catch
GVExitCode(v) == IF v.threw \/ v.errors # <<>> THEN 1 ELSE 0

\* what the latest godojo:validate run found
GVIdle == [runs |-> 0, exit |-> -1, last |-> GVNew]

\* npm run godojo:validate
Validate ==
    /\ LET v == GVRun
       IN gv' = [runs |-> 1, exit |-> GVExitCode(v), last |-> v]
    /\ UNCHANGED <<env, build, clock, sv, cb, ca, cc, profile, export, gp, sg, cf>>

----------------------------------------------------------------------------
(* Structure generator: src/scripts/structure-generator.js.  It works on   *)
(* paths of the project: content.config.json is config, content and the    *)
(* category directories and pages of basics and web are content, build is  *)
(* build, scripts/<name> is the name <name> of rootFs, and every other     *)
(* path is a name of rootFs.  An item of createdItems or skippedItems is   *)
(* [kind, path], kind being "dir" or "file".                               *)

SGFiles(f) == [rootFs |-> f[1], config |-> f[2], content |-> f[3], build |-> f[4]]

\* new StructureGenerator(), with the run's view of the project files
SGNew == [fs |-> SGFiles(<<rootFs, config, content, build>>),
          createdItems |-> <<>>, skippedItems |-> <<>>, threw |-> FALSE]

SGItem(kind, path) == [kind |-> kind, path |-> path]

SGScripts == <<"help.js", "bilingual-sync.js", "bilingual-checker.js",
               "godojo-prepare.js", "godojo-validator.js">>

\* join('scripts', script)
ScriptPath(script) == "scripts/" \o script

\* the name of rootFs that stands for a path
RootName(path) ==
    IF \E s \in Range(SGScripts) : path = ScriptPath(s)
    THEN CHOOSE s \in Range(SGScripts) : path = ScriptPath(s)
    ELSE path

\* join(path, '..')
Parent(path) ==
    CASE path \in {"content/basics", "content/advanced", "content/web",
                   "content/concurrency", "content/testing"} -> "content"
      [] path = ".github/workflows" -> ".github"
      [] path \in {"content/basics/index.md", "content/basics/01-introduction"}
            -> "content/basics"
      [] path = "content/basics/01-introduction/topic.md" -> "content/basics/01-introduction"
      [] \E s \in Range(SGScripts) : path = ScriptPath(s) -> "scripts"
      [] OTHER -> "."

CatOfPath(path) == IF path = "content/basics" THEN "basics" ELSE "web"

\* existsSync(path)
SGExists(f, path) ==
    CASE path = "." -> TRUE
      [] path = "content" -> f.content.exists
      [] path \in {"content/basics", "content/web"}
            -> f.content.exists /\ f.content.cats[CatOfPath(path)].st # "absent"
      [] path = "content/basics/index.md"
            -> /\ f.content.exists
               /\ f.content.cats["basics"].st = "dir"
               /\ f.content.cats["basics"].index.st # "none"
      [] path = "content.config.json" -> f.config.st # "missing"
      [] path = "build" -> f.build.exists
      [] OTHER -> RootName(path) \in f.rootFs

\* the path is there and is not a directory
SGIsFile(f, path) ==
    path \in {"content/basics", "content/web"} /\ f.content.exists
    /\ f.content.cats[CatOfPath(path)].st = "file"

\* a directory cannot be made, and a file cannot be written, under a file
RECURSIVE UnderFile(_, _)
UnderFile(f, path) ==
    path # "." /\ (SGIsFile(f, Parent(path)) \/ UnderFile(f, Parent(path)))

\* mkdir(path, { recursive: true }): the directories above it are made too
RECURSIVE SGMkdir(_, _)
SGMkdir(f, path) ==
    IF SGExists(f, path) THEN f
    ELSE LET p == SGMkdir(f, Parent(path))
         IN CASE path = "content" -> [p EXCEPT !.content.exists = TRUE]
              [] path \in {"content/basics", "content/web"}
                    -> [p EXCEPT !.content.cats[CatOfPath(path)] = CatDir(NoFile, NoTopics)]
              [] path = "build" -> [p EXCEPT !.build.exists = TRUE]
              [] OTHER -> [p EXCEPT !.rootFs = @ \cup {RootName(path)}]

\* content.config.json as createConfigFiles writes it
GeneratedCategories ==
    <<[CategoryCfg("basics", "Beginner") EXCEPT !.estimatedHours = 20],
      [CategoryCfg("advanced", "Intermediate") EXCEPT !.modules = "16-30",
                                                      !.estimatedHours = 30],
      [CategoryCfg("web", "Intermediate") EXCEPT !.modules = "31-45",
                                                 !.estimatedHours = 25],
      [CategoryCfg("concurrency", "Advanced") EXCEPT !.modules = "46-60",
                                                     !.estimatedHours = 35],
      [CategoryCfg("testing", "Advanced") EXCEPT !.modules = "61-79",
                                                 !.estimatedHours = 30]>>
GeneratedConfig == ConfigObject(ConfigVal("ok", "ok", "ok", GeneratedCategories))

\* content/basics/index.md as createSampleContent writes it: the front
\* matter of the sample page, over a short body with no code
SampleIndex ==
    [st |-> "ok",
     fm |-> [NoFm EXCEPT !.title = "Osnovy Go", !.description = "long",
                         !.category = "basics", !.difficulty = "Beginner",
                         !.language = "ru", !.authorId = "system"],
     body |-> [NoBody EXCEPT !.words = 60, !.headings = 4]]

\* writeFile(path, content, 'utf8')
SGWriteFile(f, path) ==
    CASE path = "content.config.json" -> [f EXCEPT !.config = GeneratedConfig]
      [] path = "content/basics/index.md"
            -> [f EXCEPT !.content.cats["basics"].index = SampleIndex]
      [] OTHER -> [f EXCEPT !.rootFs = @ \cup {RootName(path)}]

\* StructureGenerator.ensureDirectory(path)
ensureDirectory(g, path) ==
    IF g.threw THEN g
    ELSE IF SGExists(g.fs, path)
    THEN [g EXCEPT !.skippedItems = Append(@, SGItem("dir", path))]
    ELSE IF UnderFile(g.fs, path) THEN [g EXCEPT !.threw = TRUE]
    ELSE [g EXCEPT !.fs = SGMkdir(@, path),
                   !.createdItems = Append(@, SGItem("dir", path))]

\* StructureGenerator.createFile(path, content)
createFile(g, path) ==
    LET g1 == ensureDirectory(g, Parent(path))
    IN IF g.threw THEN g
       ELSE IF SGExists(g.fs, path)
       THEN [g EXCEPT !.skippedItems = Append(@, SGItem("file", path))]
       ELSE IF g1.threw \/ UnderFile(g1.fs, path) THEN [g1 EXCEPT !.threw = TRUE]
       ELSE [g1 EXCEPT !.fs = SGWriteFile(@, path),
                       !.createdItems = Append(@, SGItem("file", path))]

SGDirectories ==
    <<"content", "content/basics", "content/advanced", "content/web",
      "content/concurrency", "content/testing", "scripts", "build", ".github",
      ".github/workflows">>

\* StructureGenerator.createDirectories
RECURSIVE ensureDirectories(_, _)
ensureDirectories(g, dirs) ==
    IF dirs = <<>> THEN g ELSE ensureDirectories(ensureDirectory(g, Head(dirs)), Tail(dirs))

createDirectories(g) == ensureDirectories(g, SGDirectories)

\* StructureGenerator.createConfigFiles
createConfigFiles(g) ==
    createFile(createFile(createFile(g, "content.config.json"), ".gitignore"), ".prettierrc")

\* StructureGenerator.createDocumentation
createDocumentation(g) ==
    LET g1 == createFile(g, "README.md")
    IN IF g1.threw \/ SGExists(g1.fs, "CONTRIBUTING.md") THEN g1
       ELSE createFile(g1, "CONTRIBUTING.md")

\* StructureGenerator.createSampleContent
createSampleContent(g) ==
    createFile(ensureDirectory(createFile(g, "content/basics/index.md"),
                               "content/basics/01-introduction"),
               "content/basics/01-introduction/topic.md")

\* StructureGenerator.createMissingScripts
RECURSIVE createScripts(_, _)
createScripts(g, scripts) ==
    IF scripts = <<>> \/ g.threw THEN g
    ELSE createScripts(IF SGExists(g.fs, ScriptPath(Head(scripts))) THEN g
                       ELSE createFile(g, ScriptPath(Head(scripts))),
                       Tail(scripts))

createMissingScripts(g) == createScripts(g, SGScripts)

\* StructureGenerator.fullSetup, the prompt answered with confirmSetup
fullSetup(g, confirmSetup) ==
    IF ~confirmSetup THEN g
    ELSE createSampleContent(createDocumentation(createConfigFiles(createDirectories(g))))

SGActions == {"directories", "config", "docs", "sample", "scripts", "cancel"}

\* StructureGenerator.selectiveGeneration, the prompt answered with action
selectiveGeneration(g, action) ==
    CASE action = "directories" -> createDirectories(g)
      [] action = "config" -> createConfigFiles(g)
      [] action = "docs" -> createDocumentation(g)
      [] action = "sample" -> createSampleContent(g)
      [] action = "scripts" -> createMissingScripts(g)
      [] OTHER -> g

\* StructureGenerator.run(): a project without content.config.json gets
\* the full setup
SGRun(confirmSetup, action) ==
    IF config.st = "missing" THEN fullSetup(SGNew, confirmSetup)
    ELSE selectiveGeneration(SGNew, action)

\* what the latest generator run did, what it was asked and how many ran
SGIdle == [runs |-> 0, action |-> "", createdItems |-> <<>>, skippedItems |-> <<>>,
           threw |-> FALSE]

\* npm run structure:generate
Generate ==
    /\ sg.runs < MaxGenerations
    /\ \E confirmSetup \in BOOLEAN, action \in SGActions :
          LET g == SGRun(confirmSetup, action)
          IN /\ rootFs' = g.fs.rootFs
             /\ config' = g.fs.config
             /\ content' = g.fs.content
             /\ build' = g.fs.build
             /\ sg' = [runs |-> sg.runs + 1,
                       action |-> IF config.st # "missing" THEN action
                                  ELSE IF confirmSetup THEN "full" ELSE "cancel",
                       createdItems |-> g.createdItems, skippedItems |-> g.skippedItems,
                       threw |-> g.threw]
    /\ UNCHANGED <<clock, sv, cb, ca, cc, profile, export, gp, gv, cf>>

----------------------------------------------------------------------------
(* Content formatter: class ContentFormatter of                            *)
(* src/scripts/godojo-validator.js.  A markdown file is taken as the       *)
(* marker of its list items and its inline links [text](target) in order,  *)
(* a target being its characters; headings, fences and blank lines are    *)
(* left out.                                                               *)

Http == <<"h", "t", "t", "p">>
HttpProtocol == Http \o <<":", "/", "/">>
HttpsProtocol == Http \o <<"s", ":", "/", "/">>

\* topic.md, ./img.png, ../other/topic.md, #top, /topic.md, go.dev,
\* https://go.dev, http://go.dev, intro, httpd.conf
TopicMd == <<"t", "o", "p", "i", "c", ".", "m", "d">>
ImgPng == <<".", "/", "i", "m", "g", ".", "p", "n", "g">>
OtherTopicMd == <<".", ".", "/", "o", "t", "h", "e", "r", "/">> \o TopicMd
GoDev == <<"g", "o", ".", "d", "e", "v">>
LinkTargets ==
    {TopicMd, ImgPng, OtherTopicMd, <<"#", "t", "o", "p">>, <<"/">> \o TopicMd, GoDev,
     HttpsProtocol \o GoDev, HttpProtocol \o GoDev, <<"i", "n", "t", "r", "o">>,
     Http \o <<"d", ".", "c", "o", "n", "f">>}

Link(target) == [text |-> "t", target |-> target]

StartsWith(s, prefix) == Len(s) >= Len(prefix) /\ SubSeq(s, 1, Len(prefix)) = prefix

\* the internal links of ContentChecker.checkLinks:
\* /\[([^\]]+)\]\((?!http)([^)]+)\)/g
InternalLink(link) ==
    link.text # "" /\ link.target # <<>> /\ ~StartsWith(link.target, Http)

\* /\[([^\]]+)\]\(((?!https?:\/\/|#|\/)[^)]+\.[^)]+)\)/g matches the link
LacksProtocol(link) ==
    /\ link.text # ""
    /\ ~StartsWith(link.target, HttpProtocol)
    /\ ~StartsWith(link.target, HttpsProtocol)
    /\ ~StartsWith(link.target, <<"#">>)
    /\ ~StartsWith(link.target, <<"/">>)
    /\ \E i \in 2..(Len(link.target) - 1) : link.target[i] = "."

\* ContentFormatter.fixLinks: '[$1](https://$2)' for every match
fixLinks(markdown) ==
    [markdown EXCEPT !.links =
        [i \in 1..Len(@) |->
            IF LacksProtocol(@[i]) THEN [@[i] EXCEPT !.target = HttpsProtocol \o @]
            ELSE @[i]]]

\* ContentFormatter.standardizeLists: * becomes - in the lists
standardizeLists(markdown) ==
    [markdown EXCEPT !.bullet = IF @ = "*" THEN "-" ELSE @]

\* ContentFormatter.applyCustomRules; the rules for headings, code blocks
\* and line breaks rewrite what a document here does not hold
applyCustomRules(markdown) == fixLinks(standardizeLists(markdown))

\* ContentFormatter.formatMarkdown: prettier prints list markers and links
\* as they are
formatMarkdown(markdown) == markdown

\* ContentFormatter.formatFile: the file as it is left, and what is returned
formatFile(markdown) ==
    LET formattedMarkdown == applyCustomRules(formatMarkdown(markdown))
    IN [file |-> formattedMarkdown, formatted |-> markdown # formattedMarkdown]

NoFormatStats == [totalFiles |-> 0, formattedFiles |-> 0, skippedFiles |-> 0, errors |-> 0]

\* ContentFormatter.run
CFRun(files) ==
    LET done == [i \in 1..Len(files) |-> formatFile(files[i])]
        formatted == {i \in 1..Len(files) : done[i].formatted}
    IN IF ~content.exists THEN [files |-> files, stats |-> NoFormatStats]
       ELSE [files |-> [i \in 1..Len(files) |-> done[i].file],
             stats |-> [totalFiles |-> Len(files),
                        formattedFiles |-> Cardinality(formatted),
                        skippedFiles |-> Len(files) - Cardinality(formatted),
                        errors |-> 0]]

\* the markdown files of content/, what the latest formatter run counted
\* and how many ran
CFIdle == [runs |-> 0, files |-> <<>>, stats |-> NoFormatStats]

\* npm run content:format
Format ==
    /\ cf.runs < MaxFormats
    /\ cf' = [runs |-> cf.runs + 1, files |-> CFRun(cf.files).files,
              stats |-> CFRun(cf.files).stats]
    /\ UNCHANGED <<env, build, clock, sv, cb, ca, cc, profile, export, gp, gv, sg>>

----------------------------------------------------------------------------
(* Initial states and specifications *)

\* the files a structure-validator run starts from

RootAll == {"package.json", "CONTRIBUTING.md", "README.md", "scripts"} \cup Range(ScriptList)

SVRoots == {RootAll, RootAll \ {"README.md"}, RootAll \ {"help.js"},
            RootAll \ ({"scripts"} \cup Range(ScriptList))}

SVConfigs ==
    {ConfigFile("missing"), ConfigFile("badjson"), ConfigFile("null"), GoodConfig,
     ConfigObject([NoConfigVal EXCEPT !.structure = "ok", !.godojo = "ok", !.quality = "ok"]),
     ConfigObject([NoConfigVal EXCEPT !.structure = "ok", !.godojo = "ok", !.quality = "ok",
                                      !.catsKind = "mistyped"]),
     ConfigObject(ConfigVal("missing", "ok", "ok", <<CategoryCfg("basics", "Beginner")>>)),
     ConfigObject(ConfigVal("ok", "ok", "ok",
                            <<CategoryCfg("web", "Beginner"), CategoryCfg("", "Beginner")>>))}

SVTopicFiles == {NoFile, TopicFile("intro", 1, "basics"), TopicFile("intro", 16, "basics"),
                 TopicFile("intro", 80, "basics")}

TopicDirs(files) == {NoTopicDir} \cup {[exists |-> TRUE, topic |-> f] : f \in files}

\* the topic directories of one category: at most MaxTopics of them, under
\* the names of the first module numbers
LowTopicNames == {"01-intro", "02-types", "04-loops", "Notes"}
TopicSets(files) ==
    {t \in [TopicNames -> TopicDirs(files)] :
        /\ Cardinality({n \in TopicNames : t[n].exists}) <= MaxTopics
        /\ \A n \in TopicNames \ LowTopicNames : ~t[n].exists}

SVIndexFiles == {NoFile, BadFile, IndexFile("basics", "T"), IndexFile("web", "T"),
                 IndexFile("basics", "")}

SVBasicsDirs ==
    {NoCatDir, [NoCatDir EXCEPT !.st = "file"],
     [CatDir(IndexFile("basics", "T"), NoTopics) EXCEPT !.listable = FALSE]}
    \cup {CatDir(i, t) : i \in SVIndexFiles, t \in TopicSets(SVTopicFiles)}

SVWebDirs ==
    {NoCatDir,
     CatDir(IndexFile("web", "T"),
            [NoTopics EXCEPT !["01-intro"] =
                [exists |-> TRUE, topic |-> TopicFile("http", 22, "web")]]),
     CatDir(IndexFile("web", "T"),
            [NoTopics EXCEPT !["02-types"] = [exists |-> TRUE, topic |-> NoFile]])}

SVContents ==
    {NoContent} \cup
    {[exists |-> TRUE, cats |-> [c \in CatNames |-> IF c = "basics" THEN b ELSE w]] :
        b \in SVBasicsDirs, w \in SVWebDirs}

InitSV ==
    /\ rootFs \in SVRoots
    /\ config \in SVConfigs
    /\ content \in SVContents
    /\ build = NoBuild
    /\ clock = 0
    /\ sv = SVNew
    /\ cb = CBIdle
    /\ ca = CAIdle
    /\ cc = CCNew
    /\ profile = NoProfile
    /\ export = NoExport
    /\ gp = GPIdle
    /\ gv = GVIdle
    /\ sg = SGIdle
    /\ cf = CFIdle

NextSV == SVRoot \/ SVContent \/ SVConfig \/ SVNaming \/ SVIntegrity \/ SVExit

SpecSV == InitSV /\ [][NextSV]_vars

\* the files the builder runs start from
CBConfigs ==
    {GoodConfig,
     ConfigObject(ConfigVal("missing", "ok", "ok", <<CategoryCfg("basics", "Beginner")>>))}

\* topic directories under the names of `names` only
TopicSetsIn(names, files) ==
    {t \in TopicSets(files) : \A n \in TopicNames \ names : ~t[n].exists}

CBCatDirs(c, names) ==
    {NoCatDir} \cup
    {CatDir(i, t) : i \in {NoFile, IndexFile(c, c)}, t \in TopicSetsIn(names, CBTopicFiles)}

CBContents ==
    {NoContent} \cup
    {[exists |-> TRUE, cats |-> [c \in CatNames |-> IF c = "basics" THEN b ELSE w]] :
        b \in CBCatDirs("basics", CBTopicNames),
        w \in CBCatDirs("web", {"01-intro"})}

InitCB ==
    /\ rootFs = RootAll
    /\ config \in CBConfigs
    /\ content \in CBContents
    /\ build = NoBuild
    /\ clock = 0
    /\ sv = SVNew
    /\ cb = CBIdle
    /\ ca = CAIdle
    /\ cc = CCNew
    /\ profile = NoProfile
    /\ export = NoExport
    /\ gp = GPIdle
    /\ gv = GVIdle
    /\ sg = SGIdle
    /\ cf = CFIdle

NextCB == Build \/ AddTopic \/ RemoveTopic \/ AddCategory \/ RemoveCategory

SpecCB == InitCB /\ [][NextCB]_vars

\* the files the content-author invocations start from
CAConfigs ==
    {ConfigFile("missing"), ConfigFile("unreadable"), ConfigFile("badjson"),
     ConfigFile("null"), GoodConfig,
     ConfigObject(ConfigVal("missing", "ok", "ok", GoodCats)),
     ConfigObject(ConfigVal("ok", "missing", "ok", GoodCats)),
     ConfigObject(ConfigVal("ok", "mistyped", "ok", GoodCats)),
     ConfigObject(ConfigVal("ok", "ok", "mistyped", GoodCats)),
     ConfigObject(ConfigVal("mistyped", "ok", "missing", GoodCats)),
     ConfigObject([NoConfigVal EXCEPT !.structure = "ok", !.godojo = "ok", !.quality = "ok"]),
     ConfigObject([NoConfigVal EXCEPT !.structure = "ok", !.godojo = "ok", !.quality = "ok",
                                      !.catsKind = "mistyped"]),
     ConfigObject(ConfigVal("ok", "ok", "ok", <<CategoryCfg("basics", "BEGINNER")>>)),
     ConfigObject(ConfigVal("ok", "ok", "ok",
                            <<CategoryCfg("basics", "Beginner"), CategoryCfg("", "Advanced")>>))}

CAContents ==
    {NoContent} \cup
    {[exists |-> TRUE, cats |-> [c \in CatNames |-> IF c = "basics" THEN b ELSE NoCatDir]] :
        b \in {CatDir(IndexFile("basics", "T"), NoTopics),
               CatDir(UnreadableFile, NoTopics),
               [NoCatDir EXCEPT !.st = "file"]}}

\* the profile file as an author:init at time 0 left it
CreatedProfile ==
    [NoProfile EXCEPT !.st = "ok", !.authorId = generateAuthorId(Username, 0),
                      !.username = Username]

CAProfiles == {NoProfile, [NoProfile EXCEPT !.st = "bad"], CreatedProfile}

InitCA ==
    /\ rootFs = RootAll
    /\ config \in CAConfigs
    /\ content \in CAContents
    /\ build = NoBuild
    /\ clock = 0
    /\ sv = SVNew
    /\ cb = CBIdle
    /\ ca = CAIdle
    /\ cc = CCNew
    /\ profile \in CAProfiles
    /\ export = NoExport
    /\ gp = GPIdle
    /\ gv = GVIdle
    /\ sg = SGIdle
    /\ cf = CFIdle

NextCA == AuthorInit \/ AuthorNew \/ AuthorValidate \/ AuthorStats \/ AuthorHelp

SpecCA == InitCA /\ [][NextCA]_vars

\* author:init and author:new over a valid configuration, with a profile
\* file that is absent or as author:init left it, writable or not
APContents ==
    {NoContent} \cup
    {[exists |-> TRUE, cats |-> [c \in CatNames |-> IF c = "basics" THEN b ELSE NoCatDir]] :
        b \in {CatDir(IndexFile("basics", "T"), NoTopics),
               [NoCatDir EXCEPT !.st = "file"]}}

APProfiles ==
    {NoProfile, CreatedProfile,
     [NoProfile EXCEPT !.readonly = TRUE], [CreatedProfile EXCEPT !.readonly = TRUE]}

InitAP ==
    /\ rootFs = RootAll
    /\ config = GoodConfig
    /\ content \in APContents
    /\ build = NoBuild
    /\ clock = 0
    /\ sv = SVNew
    /\ cb = CBIdle
    /\ ca = CAIdle
    /\ cc = CCNew
    /\ profile \in APProfiles
    /\ export = NoExport
    /\ gp = GPIdle
    /\ gv = GVIdle
    /\ sg = SGIdle
    /\ cf = CFIdle

NextAP == AuthorInit \/ AuthorNew

SpecAP == InitAP /\ [][NextAP]_vars

\* the three tools that read content.config.json, over the same files
ToolConfigs ==
    {ConfigFile("missing"), ConfigFile("badjson"), GoodConfig,
     ConfigObject(ConfigVal("missing", "ok", "ok", GoodCats)),
     ConfigObject(ConfigVal("ok", "ok", "missing", GoodCats)),
     ConfigObject([NoConfigVal EXCEPT !.structure = "ok", !.godojo = "ok", !.quality = "ok"])}

ToolContents ==
    {[exists |-> TRUE,
      cats |-> [c \in CatNames |->
                  IF c = "basics"
                  THEN CatDir(IndexFile("basics", "T"),
                              [NoTopics EXCEPT !["01-intro"] =
                                  [exists |-> TRUE, topic |-> TopicFile("intro", 1, "basics")]])
                  ELSE w]] : w \in {NoCatDir, CatDir(IndexFile("web", "T"), NoTopics)}}

InitTools ==
    /\ rootFs = RootAll
    /\ config \in ToolConfigs
    /\ content \in ToolContents
    /\ build = NoBuild
    /\ clock = 0
    /\ sv = SVNew
    /\ cb = CBIdle
    /\ ca = CAIdle
    /\ cc = CCNew
    /\ profile \in {NoProfile, CreatedProfile}
    /\ export = NoExport
    /\ gp = GPIdle
    /\ gv = GVIdle
    /\ sg = SGIdle
    /\ cf = CFIdle

NextTools == NextSV \/ Build \/ NextCA

SpecTools == InitTools /\ [][NextTools]_vars

\* the files a content-checker run starts from
CCTopicFiles ==
    {TopicFile("intro", 1, "basics"), BadFile, UnreadableFile,
     [TopicFile("intro", 1, "basics") EXCEPT !.body.words = 700],
     [TopicFile("intro", 1, "basics") EXCEPT !.body.words = 799, !.body.exercises = 1],
     [TopicFile("types", 2, "basics") EXCEPT !.fm.title = "", !.fm.authorId = ""],
     [TopicFile("types", 2, "basics") EXCEPT !.fm.description = "", !.fm.category = "",
                                             !.body = NoBody],
     [TopicFile("types", 2, "basics") EXCEPT !.body.lorem = TRUE, !.body.goBlocks = 2,
                                             !.body.headings = 2, !.body.brokenLinks = 1]}

CCContents ==
    {NoContent,
     [exists |-> TRUE,
      cats |-> [c \in CatNames |->
                  IF c = "basics"
                  THEN [CatDir(IndexFile("basics", "T"), NoTopics) EXCEPT !.listable = FALSE]
                  ELSE NoCatDir]]}
    \cup
    {[exists |-> TRUE,
      cats |-> [c \in CatNames |-> IF c = "basics" THEN CatDir(i, t) ELSE w]] :
        i \in {NoFile, BadFile, IndexFile("basics", "T")},
        t \in TopicSetsIn(CBTopicNames, CCTopicFiles),
        w \in {NoCatDir, CatDir(UnreadableFile, NoTopics)}}

InitCC ==
    /\ rootFs = RootAll
    /\ config = GoodConfig
    /\ content \in CCContents
    /\ build = NoBuild
    /\ clock = 0
    /\ sv = SVNew
    /\ cb = CBIdle
    /\ ca = CAIdle
    /\ cc = CCNew
    /\ profile = NoProfile
    /\ export = NoExport
    /\ gp = GPIdle
    /\ gv = GVIdle
    /\ sg = SGIdle
    /\ cf = CFIdle

NextCC == CCScan \/ CCCheckFile \/ CCReport

SpecCC == InitCC /\ [][NextCC]_vars

\* Exporter: content/ of a project with a valid config, built and exported

GPTopicFiles ==
    {TopicFile("intro", 1, "basics"),
     [TopicFile("types", 2, "basics") EXCEPT !.fm.tags = NoTags],
     [TopicFile("types", 70, "basics") EXCEPT
         !.body.examples = 2, !.body.exercises = 0,
         !.body.sections = [NoSections EXCEPT
                               !.examples = <<SnippetExample, NoCodeExample>>]]}

GPContents ==
    {NoContent} \cup
    {[exists |-> TRUE, cats |-> [c \in CatNames |-> IF c = "basics" THEN b ELSE w]] :
        b \in {CatDir(IndexFile("basics", "T"), t) :
                  t \in TopicSetsIn(CBTopicNames, GPTopicFiles)},
        w \in {NoCatDir,
               CatDir(IndexFile("web", "T"),
                      [NoTopics EXCEPT !["01-intro"] =
                          [exists |-> TRUE, topic |-> TopicFile("http", 22, "web")]])}}

\* godojo-export/ as an export of an earlier, empty build left it
OldExport ==
    [NoExport EXCEPT !.exists = TRUE,
                     !.subdirs = {"content", "metadata", "search", "assets"},
                     !.report = [exists |-> TRUE,
                                 val |-> [generated |-> 0, stats |-> NoExportStats,
                                          readyForUpload |-> TRUE]]]

InitGP ==
    /\ rootFs = RootAll
    /\ config = GoodConfig
    /\ content \in GPContents
    /\ build = NoBuild
    /\ clock = 0
    /\ sv = SVNew
    /\ cb = CBIdle
    /\ ca = CAIdle
    /\ cc = CCNew
    /\ profile = NoProfile
    /\ export \in {NoExport, OldExport}
    /\ gp = GPIdle
    /\ gv = GVIdle
    /\ sg = SGIdle
    /\ cf = CFIdle

NextGP == Build \/ Prepare \/ DeleteBuiltTopic

SpecGP == InitGP /\ [][NextGP]_vars

\* The same, with the author removing a topic from content/ between a build
\* and the next
NextGPEdit == Build \/ Prepare \/ RemoveTopic

SpecGPEdit == InitGP /\ [][NextGPEdit]_vars

\* godojo:validate over content/ and content.config.json, or over what a
\* build and an export left in godojo-export/

EmptyTheoryTopic ==
    [TopicFile("types", 2, "basics") EXCEPT !.body.sections.theory = ""]

GVTopicFiles == {TopicFile("intro", 1, "basics"), EmptyTheoryTopic}

GVContents ==
    {NoContent} \cup
    {[exists |-> TRUE, cats |-> [c \in CatNames |-> IF c = "basics" THEN b ELSE NoCatDir]] :
        b \in {CatDir(IndexFile("basics", "T"), t) :
                  t \in TopicSetsIn(CBTopicNames, GVTopicFiles)}}

GVConfigs ==
    {GoodConfig, ConfigFile("missing"), ConfigFile("badjson"),
     ConfigObject(ConfigVal("missing", "ok", "ok", GoodCats)),
     ConfigObject(ConfigVal("ok", "ok", "ok", <<CategoryCfg("misc", "Beginner")>>))}

\* godojo-export/ holding a package.json of another kind and nothing else
ForeignExport ==
    [OldExport EXCEPT !.report = NoJson,
                      !.package = [exists |-> TRUE,
                                   val |-> [type |-> "npm-package", version |-> "1.0",
                                            created |-> 0, checksum |-> "", totalSize |-> 0,
                                            fileCount |-> 0]]]

InitGV ==
    /\ rootFs = RootAll
    /\ config \in GVConfigs
    /\ content \in GVContents
    /\ build = NoBuild
    /\ clock = 0
    /\ sv = SVNew
    /\ cb = CBIdle
    /\ ca = CAIdle
    /\ cc = CCNew
    /\ profile = NoProfile
    /\ export \in {NoExport, OldExport, ForeignExport}
    /\ gp = GPIdle
    /\ gv = GVIdle
    /\ sg = SGIdle
    /\ cf = CFIdle

NextGV == Build \/ Prepare \/ Validate

SpecGV == InitGV /\ [][NextGV]_vars

\* Projects the generator is run on: an empty one, a complete one, one with
\* some of the scripts and documents, and content/ with basics missing, as a
\* directory with or without its page, or as a file of that name
SGRoots == {{}, RootAll, {"README.md", "scripts", "help.js"}, {"CONTRIBUTING.md", ".gitignore"}}

SGContents ==
    {NoContent,
     [NoContent EXCEPT !.exists = TRUE],
     [NoContent EXCEPT !.exists = TRUE, !.cats["basics"] = CatDir(NoFile, NoTopics)],
     [NoContent EXCEPT !.exists = TRUE,
                       !.cats["basics"] = CatDir(IndexFile("basics", "T"), NoTopics)],
     [NoContent EXCEPT !.exists = TRUE, !.cats["basics"].st = "file"]}

InitSG ==
    /\ rootFs \in SGRoots
    /\ config \in {ConfigFile("missing"), GoodConfig}
    /\ content \in SGContents
    /\ build \in {NoBuild, [NoBuild EXCEPT !.exists = TRUE]}
    /\ clock = 0
    /\ sv = SVNew
    /\ cb = CBIdle
    /\ ca = CAIdle
    /\ cc = CCNew
    /\ profile = NoProfile
    /\ export = NoExport
    /\ gp = GPIdle
    /\ gv = GVIdle
    /\ sg = SGIdle
    /\ cf = CFIdle

NextSG == Generate

SpecSG == InitSG /\ [][NextSG]_vars

\* Topics made by author:new in categories that hold none, web declaring
\* the modules 16-30, and the structure validator run on the result
RangedConfig ==
    ConfigObject(ConfigVal("ok", "ok", "ok",
        <<CategoryCfg("basics", "Beginner"),
          [CategoryCfg("web", "Intermediate") EXCEPT !.modules = "16-30"]>>))

TNContents ==
    {NoContent,
     [exists |-> TRUE,
      cats |-> [c \in CatNames |-> CatDir(IndexFile(c, "T"), NoTopics)]]}

InitTN ==
    /\ rootFs = RootAll
    /\ config = RangedConfig
    /\ content \in TNContents
    /\ build = NoBuild
    /\ clock = 0
    /\ sv = SVNew
    /\ cb = CBIdle
    /\ ca = CAIdle
    /\ cc = CCNew
    /\ profile = CreatedProfile
    /\ export = NoExport
    /\ gp = GPIdle
    /\ gv = GVIdle
    /\ sg = SGIdle
    /\ cf = CFIdle

\* the validator runs on a tree that is not edited while it runs
NextTN == (sv.pc = "root" /\ AuthorNewTopic) \/ NextSV

SpecTN == InitTN /\ [][NextTN]_vars

\* content/ with one or two markdown files of at most MaxLinks links
RECURSIVE LinkLists(_)
LinkLists(n) ==
    IF n = 0 THEN {<<>>}
    ELSE LinkLists(n - 1)
         \cup {Append(l, Link(t)) : l \in {k \in LinkLists(n - 1) : Len(k) = n - 1},
                                    t \in LinkTargets}

Markdowns == {[bullet |-> b, links |-> l] : b \in {"*", "-"}, l \in LinkLists(MaxLinks)}

CFFiles ==
    {<<m>> : m \in Markdowns}
    \cup {<<[bullet |-> "-", links |-> <<Link(t)>>],
            [bullet |-> "-", links |-> <<Link(u)>>]>> : t, u \in {TopicMd, GoDev}}

InitCF ==
    /\ rootFs = RootAll
    /\ config = GoodConfig
    /\ \/ content = NoContent /\ cf = CFIdle
       \/ /\ content = [exists |-> TRUE,
                        cats |-> [c \in CatNames |-> CatDir(IndexFile(c, "T"), NoTopics)]]
          /\ cf \in {[CFIdle EXCEPT !.files = f] : f \in CFFiles}
    /\ build = NoBuild
    /\ clock = 0
    /\ sv = SVNew
    /\ cb = CBIdle
    /\ ca = CAIdle
    /\ cc = CCNew
    /\ profile = NoProfile
    /\ export = NoExport
    /\ gp = GPIdle
    /\ gv = GVIdle
    /\ sg = SGIdle

NextCF == Format

SpecCF == InitCF /\ [][NextCF]_vars

----------------------------------------------------------------------------
(* Claims *)

\* Structure validator

SVDone == sv.pc = "done"

\* C1 as stated: a finished run of the structure validator exits non-zero
\* if and only if at least one blocking finding (an entry of errors) was
\* recorded; with no blocking finding it exits 0, also when the config has no
\* categories array or a directory listing fails.
C1_ExitIffErrors == SVDone => ((sv.exit # 0) <=> (Len(sv.errors) > 0))

\* C1 amended: a finished run exits non-zero if and only if a blocking
\* finding was recorded or a validation step threw; a config object without
\* a categories array, met with content/ present, throws and exits 1; a run
\* that completes every step exits 1 exactly when errors is not empty.
C1_ExitIffErrorsOrThrow ==
    SVDone =>
        /\ sv.exit \in {0, 1}
        /\ (sv.exit # 0) <=> (Len(sv.errors) > 0 \/ sv.threw)
        /\ (content.exists /\ config.st = "object" /\ config.val.catsKind # "array")
              => (sv.threw /\ sv.exit = 1)
        /\ ~sv.threw => sv.ran = <<"root", "content", "config", "naming", "integrity">>

\* a run that threw with no blocking finding recorded, and exited 1
C1_Witness == SVDone /\ sv.threw /\ sv.errors = <<>> /\ sv.exit = 1

\* Content builder

CBRan == cb.runs >= 1 /\ ~cb.dirty      \* content/ is as the latest run read it
CBSucceeded == cb.runs >= 1 /\ cb.exit = 0

TopicsIn(c) == {t \in TopicNames : content.cats[c].topics[t].exists}
ScannedCats == {c \in CatNames : content.exists /\ content.cats[c].st = "dir"}
HasBadTopic == \E c \in ScannedCats : \E t \in TopicsIn(c) :
                   content.cats[c].topics[t].topic.st \in {"bad", "unreadable"}
ParsedTopics ==
    {f \in {content.cats[c].topics[t].topic : c \in ScannedCats, t \in TopicNames} :
        f.st = "ok"}
TopicPaths(b) == {f.path : f \in b.topicFiles}
CatPaths(b) == {f.path : f \in b.catFiles}

C3_OutputIsLatestBuild ==
    CBSucceeded =>
        /\ TopicPaths(build) = cb.last.wroteTopics
        /\ CatPaths(build) = cb.last.wroteCats

\* C4 as stated: no two input topics are written to the same output path, so
\* the number of topic JSON files written equals manifest.stats.topics and
\* the length of topics-index.json.
C4_OneFilePerTopic ==
    CBSucceeded =>
        /\ Cardinality(cb.last.wroteTopics) = build.manifest.val.stats.topics
        /\ Cardinality(cb.last.wroteTopics) = Len(build.topicsIndex.val)

\* build/ with the manifest's generated timestamp blanked
WithoutTimestamp(b) ==
    IF b.manifest.exists THEN [b EXCEPT !.manifest.val.generated = 0] ELSE b

\* C5: a second build over an unchanged content tree and config leaves the
\* same topic files, category files, indexes and manifest as the first, but
\* for the manifest's generated timestamp.
C5_Idempotent ==
    (cb.runs >= 2 /\ ~cb.changed) => WithoutTimestamp(build) = WithoutTimestamp(cb.prev)

\* a second successful build of an unchanged tree, with output, at a later time
C5_Witness ==
    /\ cb.runs >= 2 /\ ~cb.changed /\ cb.exit = 0
    /\ build.topicFiles # {} /\ build.catFiles # {}
    /\ cb.prev.manifest.exists
    /\ build.manifest.val.generated # cb.prev.manifest.val.generated

\* C6 as stated: every category directory with an index.md gets its own
\* build/categories/<slug>.yaml, and every topic found under content/<slug>/
\* is written under build/topics/<slug>/ with category = <slug>.
C6_OutputPerCategory ==
    (CBSucceeded /\ ~cb.dirty) =>
        \A c \in ScannedCats :
            /\ content.cats[c].index.st = "ok" => c \in CatPaths(build)
            /\ \A t \in TopicsIn(c) :
                  content.cats[c].topics[t].topic.st = "ok" =>
                      \E f \in build.topicFiles : f.path.dir = c /\ f.rec.category = c

\* Configuration loading

ConfigCommands == {"init", "new", "validate", "help"}
CALoaded == ca.runs >= 1 /\ ca.cmd \in ConfigCommands
Sections == {"structure", "godojo", "quality"}

\* a categories array whose every entry has its required fields well typed
CategoriesWellTyped ==
    /\ config.val.catsKind = "array"
    /\ \A i \in 1..Len(config.val.cats) :
          LET cat == config.val.cats[i]
          IN /\ cat.slug # "" /\ cat.titleRu # "" /\ cat.descriptionRu # ""
             /\ cat.modules # "" /\ cat.estimatedHours > 0
             /\ cat.difficulty \in {"Beginner", "Intermediate", "Advanced"}

\* missing, unparsable, or without a well-typed structure, categories or
\* quality section
ConfigInvalid ==
    \/ config.st \in {"missing", "badjson", "null"}
    \/ /\ config.st = "object"
       /\ \/ config.val.structure # "ok"
          \/ config.val.quality # "ok"
          \/ ~CategoriesWellTyped

\* C7 as stated: with a missing, unparsable or schema-invalid configuration
\* every tool aborts at once: a content-author command runs nothing after
\* loadConfig, the builder nothing after its loadConfig, the structure
\* validator neither the naming nor the integrity step, and each exits
\* non-zero.
C7_ConfigErrorsFatal ==
    ConfigInvalid =>
        /\ CALoaded => (ca.exit # 0 /\ ca.ran = <<"loadConfig">>)
        /\ cb.runs >= 1 =>
              /\ cb.exit # 0
              /\ Range(cb.last.ran) \subseteq {"ensureOutputDir", "loadConfig"}
        /\ SVDone =>
              /\ sv.exit # 0
              /\ "naming" \notin Range(sv.ran) /\ "integrity" \notin Range(sv.ran)

AllMdPaths ==
    {MdPath(c, t) : c \in CatNames, t \in TopicNames \cup {""}}
MdFiles ==
    {p \in AllMdPaths :
        /\ content.exists /\ content.cats[p.cat].st = "dir"
        /\ (p.topic # "" => content.cats[p.cat].topics[p.topic].exists)
        /\ FileAt(p).st # "none"}
Unparsable(p) == FileAt(p).st \in {"unreadable", "bad"}
Offending(p) ==
    \/ Unparsable(p)
    \/ \E f \in {"title", "description", "authorId", "category"} : FileAt(p).fm[f] = ""
    \/ FileAt(p).body.words + FileAt(p).body.codeWords < 800
    \/ FileAt(p).body.goBlocks < 3
    \/ FileAt(p).body.lorem
HasIssue(p) == \E i \in 1..Len(cc.issues) : cc.issues[i].file = p
Checked == {cc.files[i] : i \in 1..cc.stats.checkedFiles}

\* C9: per-file errors are accumulated, not thrown: a file that cannot be
\* read or parsed gets a blocking finding naming it and the files after it
\* are still checked; when results are reported checkedFiles = totalFiles,
\* the number of markdown files under content/, and every offending file has
\* at least one finding with its path.
C9_ErrorsAccumulated ==
    /\ cc.pc \in {"check", "done"} =>
          /\ \A p \in Checked : Offending(p) => HasIssue(p)
          /\ \A i \in 1..Len(cc.issues) : cc.issues[i].file \in Checked
          /\ cc.stats.issues = Len(cc.issues)
          /\ cc.pc = "check" => ~cc.threw
    /\ cc.reported =>
          /\ cc.stats.checkedFiles = cc.stats.totalFiles
          /\ cc.stats.totalFiles = Cardinality(MdFiles)
          /\ Checked = MdFiles
          /\ \A p \in MdFiles : Offending(p) => HasIssue(p)

\* a reported run in which an unparsable file was followed by another file
C9_Witness ==
    /\ cc.reported
    /\ \E i \in 1..Len(cc.files) :
          /\ Unparsable(cc.files[i]) /\ HasIssue(cc.files[i])
          /\ i < Len(cc.files)
    /\ cc.stats.checkedFiles = cc.stats.totalFiles

\* C10 as stated: a finished run exits 0 only on success with no blocking
\* finding; whenever an issue was recorded, the scan failed or content/ does
\* not exist, the exit code is non-zero.
C10_ExitNonZero ==
    cc.pc = "done" =>
        /\ (Len(cc.issues) > 0 \/ cc.threw \/ ~content.exists) => cc.exit # 0
        /\ cc.exit = 0 => (cc.reported /\ Len(cc.issues) = 0)

\* the issues of file p whose message names a required front-matter field
FieldIssues(p) ==
    {i \in 1..Len(cc.issues) :
        cc.issues[i].file = p /\ cc.issues[i].message \in Range(FrontmatterRequired)}
LackedFields(p) == {f \in Range(FrontmatterRequired) : FileAt(p).fm[f] = ""}

\* C11: for every checked document that parses and whose front matter lacks
\* (or leaves empty) any of title, description, authorId, category, the
\* checker holds a blocking finding with that document's path for each
\* missing field, exactly one per missing field, whatever the body is.
C11_IssuePerMissingField ==
    cc.pc \in {"check", "done"} =>
        \A p \in Checked :
            FileAt(p).st = "ok" =>
                /\ \A f \in LackedFields(p) :
                      \E i \in FieldIssues(p) : cc.issues[i].message = f
                /\ Cardinality(FieldIssues(p)) = Cardinality(LackedFields(p))
                /\ LackedFields(p) # {} => HasIssue(p)

\* a reported run with a full-bodied document lacking two fields and an
\* empty-bodied one lacking two others
C11_Witness ==
    /\ cc.reported
    /\ \E p, q \in Checked :
          /\ FileAt(p).st = "ok" /\ FileAt(q).st = "ok"
          /\ Cardinality(LackedFields(p)) = 2 /\ FileAt(p).body = FullBody
          /\ Cardinality(LackedFields(q)) = 2 /\ FileAt(q).body = NoBody
          /\ LackedFields(p) # LackedFields(q)
          /\ Cardinality(FieldIssues(p)) = 2 /\ Cardinality(FieldIssues(q)) = 2

\* the word rule of each quality check fired on the document at p
CheckerWordIssue(p) ==
    \E i \in 1..Len(cc.issues) : cc.issues[i].file = p /\ cc.issues[i].message = "words"
ValidatorWordError(p) == "words" \in Range(validateContent(FileAt(p)).errors)
GoDojoWordError(p) == "words" \in Range(GoDojoValidateContent(FileAt(p).body))
ParsedChecked == {p \in Checked : FileAt(p).st = "ok"}

\* C12: with minWords = N, a checked document is reported for the word rule by
\* ContentValidator.validateContent and by ContentChecker.checkContent exactly
\* when it has fewer than N words outside front matter and fenced code blocks
\* (N-1 is reported, N is not), however many words its code blocks hold.
C12_WordRule ==
    cc.pc \in {"check", "done"} =>
        \A p \in ParsedChecked :
            /\ ValidatorWordError(p) <=> FileAt(p).body.words < getQualityStandards.minWords
            /\ CheckerWordIssue(p) <=> FileAt(p).body.words < getQualityStandards.minWords

\* the exercise rule of each quality check fired on the document at p
CheckerExerciseIssue(p) ==
    \E i \in 1..Len(cc.issues) : cc.issues[i].file = p /\ cc.issues[i].message = "exercises"
ValidatorExerciseError(p) == "exercises" \in Range(validateContent(FileAt(p)).errors)
GoDojoExerciseError(p) == "exercises" \in Range(GoDojoValidateContent(FileAt(p).body))

\* C13: every quality-check entry point (ContentChecker.checkFile,
\* ContentValidator.validateContent, GoDojoValidator.validateContent) reports a
\* blocking finding for a document with fewer than minExercises exercise
\* subsections, and none for that rule otherwise.
C13_ExerciseRule ==
    cc.pc \in {"check", "done"} =>
        \A p \in ParsedChecked :
            LET few == FileAt(p).body.exercises < getQualityStandards.minExercises
            IN /\ ValidatorExerciseError(p) <=> few
               /\ GoDojoExerciseError(p) <=> few
               /\ CheckerExerciseIssue(p) <=> few

\* the two validators alone do apply the exercise rule
C13_ValidatorsOnly ==
    cc.pc \in {"check", "done"} =>
        \A p \in ParsedChecked :
            LET few == FileAt(p).body.exercises < getQualityStandards.minExercises
            IN /\ ValidatorExerciseError(p) <=> few
               /\ GoDojoExerciseError(p) <=> few

\* Structure validator: topic and category findings

\* the module range a category declares in content.config.json ("1-15")
DeclaredModules(cat) == IF cat.modules = "1-15" THEN 1..15 ELSE {}
SVFound(findings, msg, at) == \E i \in 1..Len(findings) : findings[i] = Finding(msg, at)
SVFoundAt(findings, at) == \E i \in 1..Len(findings) : findings[i].at = at
SVCompleted == SVDone /\ ~sv.threw
ConfiguredCats ==
    IF config.st = "object" /\ config.val.catsKind = "array"
    THEN {config.val.cats[i] : i \in 1..Len(config.val.cats)} ELSE {}
\* topic files the validator parsed: <<category entry, topic directory name>>
SVParsedTopics ==
    {<<cat, n>> \in ConfiguredCats \X TopicNames :
        /\ cat.slug \in CatNames /\ CanList(content.cats[cat.slug])
        /\ content.cats[cat.slug].topics[n].exists
        /\ content.cats[cat.slug].topics[n].topic.st = "ok"}
TopicModule(cat, n) == content.cats[cat.slug].topics[n].topic.fm.module

\* C14: a parsed topic whose module number lies outside the range its
\* category declares in the config (module 16 in basics, "1-15") gets an
\* advisory finding citing the module number, and never a blocking one.
C14_ModuleOutOfRangeAdvisory ==
    (SVCompleted /\ content.exists) =>
        \A t \in SVParsedTopics :
            (TopicModule(t[1], t[2]) # 0 /\ TopicModule(t[1], t[2]) \notin DeclaredModules(t[1]))
                => /\ SVFound(sv.warnings, "bad module number", t[2])
                   /\ ~SVFoundAt(sv.errors, t[2])

\* what C15 requires of one configured category
IndexFindingsFor(cat) ==
    LET dir == CatDirOf(cat.slug)
    IN /\ dir.st = "absent" => SVFound(sv.errors, "missing category directory", cat.slug)
       /\ (dir.st = "file" \/ (dir.st = "dir" /\ dir.index.st = "none"))
             => SVFound(sv.errors, "missing index.md", cat.slug)
       /\ (dir.st = "dir" /\ dir.index.st = "ok" /\ dir.index.fm.category # cat.slug)
             => SVFound(sv.errors, "category slug mismatch", cat.slug)
       /\ (dir.st = "dir" /\ dir.index.st = "ok")
             => \A f \in Range(MissingFields(dir.index.fm, IndexRequired)) :
                    SVFound(sv.errors, "missing index field", f)

\* C15: for every category of content.config.json the structure validator
\* records a blocking finding when its index.md is absent (the category
\* directory too), when the index's category field differs from the slug, or
\* when title, description, difficulty or authorId is missing; a category is
\* checked whatever happened to the categories before it.
C15_CategoryIndexChecked ==
    (SVDone /\ content.exists) => \A cat \in ConfiguredCats : cat.slug # "" => IndexFindingsFor(cat)

\* the same, for the runs in which no directory listing failed
C15_CheckedUnlessThrown ==
    (SVCompleted /\ content.exists) =>
        \A cat \in ConfiguredCats : cat.slug # "" => IndexFindingsFor(cat)

CountFound(findings, msg) == Cardinality({i \in 1..Len(findings) : findings[i].msg = msg})
\* the categories of the config, by position, that validateContentStructure visits
ConfiguredIdx ==
    IF config.st = "object" /\ config.val.catsKind = "array"
    THEN 1..Len(config.val.cats) ELSE {}
\* the topic directories of the visited categories: <<position, directory name>>
SVTopicDirs ==
    {<<i, n>> \in ConfiguredIdx \X TopicNames :
        LET dir == CatDirOf(config.val.cats[i].slug)
        IN dir.st = "dir" /\ dir.topics[n].exists}
SVTopicAt(t) == CatDirOf(config.val.cats[t[1]].slug).topics[t[2]].topic
\* the sorted prefixes are exactly 1, 2, ..., n
Sequential(nums) == \A i \in 1..Len(nums) : nums[i] = i
CategoryDirs == {c \in CatNames : content.cats[c].st = "dir"}
\* the config names its categories, so that no step throws on the config itself
CategoriesNamed ==
    config.st = "object" =>
        /\ config.val.catsKind = "array"
        /\ \A i \in 1..Len(config.val.cats) : config.val.cats[i].slug # ""

TopicDirFindings ==
    /\ CountFound(sv.errors, "missing topic.md")
          = Cardinality({t \in SVTopicDirs : SVTopicAt(t).st = "none"})
    /\ CountFound(sv.warnings, "bad topic directory name")
          = Cardinality({t \in SVTopicDirs : ~HasNumberPrefix(t[2])})
    /\ CountFound(sv.errors, "bad topic directory name") = 0
    /\ CountFound(sv.errors, "topic numbering broken") = 0
    /\ \A c \in CategoryDirs :
          Cardinality({i \in 1..Len(sv.warnings) :
                          sv.warnings[i] = Finding("topic numbering broken", c)})
             = IF Sequential(TopicNumbers(content.cats[c])) THEN 0 ELSE 1
    /\ sv.errors = <<>> => (sv.exit = 0 \/ sv.threw)

\* C16: a topic directory without topic.md is a blocking finding, a topic
\* directory name without a two-digit prefix an advisory one, and each
\* category directory gets exactly one advisory numbering finding when the
\* sorted prefixes of its topic directories are not 1,2,...,n and none when
\* they are; advisory findings alone leave the exit code 0.
C16_TopicDirFindings ==
    (SVDone /\ content.exists /\ CategoriesNamed) => TopicDirFindings

\* the same, for the runs in which no directory listing failed
C16_FindingsUnlessThrown == (SVCompleted /\ content.exists) => TopicDirFindings

\* C17: no step of a structure-validator run creates, writes, renames or
\* deletes anything: the project root, content.config.json, the content tree,
\* the build output and the author profile are the same after every step,
\* whatever the run finds and also when it fails.
C17_LeavesFilesUnchanged ==
    [][UNCHANGED <<rootFs, config, content, build, profile, export>>]_vars

\* a finished run that recorded blocking findings and one that was aborted by
\* a failed directory listing, over a root that misses an item
C17_Witness ==
    /\ SVDone /\ sv.threw /\ Len(sv.errors) > 0
    /\ content.exists /\ "README.md" \notin rootFs

\* Exporter

GPRan == gp.runs >= 1
\* the code examples of the topic files under godojo-export/content
ExportedExamples ==
    UNION {Range(f.rec.content.examples) : f \in export.topicFiles}
HasBothMarkers(code) ==
    /\ \E i \in 1..Len(code) : code[i].text \in {"package main", "package main {"}
    /\ \E i \in 1..Len(code) : code[i].text \in {"func main()", "func main() {"}

\* C18: for every exported code example, playground.runnable is true exactly
\* when the snippet contains both 'package main' and 'func main()'; a runnable
\* snippet is its own template; and the template contains both markers in
\* every case, the snippet that lacks one being wrapped in boilerplate.
C18_PlaygroundTemplate ==
    \A e \in ExportedExamples :
        /\ e.playground.runnable <=> HasBothMarkers(e.code)
        /\ e.playground.runnable => e.playground.template = e.code
        /\ HasBothMarkers(e.playground.template)

\* an export with a runnable example kept as it is, an example with neither
\* marker and one with func main() only, both wrapped
C18_Witness ==
    /\ GPRan
    /\ \E e \in ExportedExamples : e.playground.runnable /\ e.playground.template = e.code
    /\ \E e \in ExportedExamples :
          /\ ~e.playground.runnable
          /\ \A i \in 1..Len(e.code) : e.code[i].text \notin {"package main", "func main() {"}
          /\ e.playground.template # e.code
          /\ HasBothMarkers(e.playground.template)
    /\ \E e \in ExportedExamples :
          /\ ~e.playground.runnable
          /\ \E i \in 1..Len(e.code) : e.code[i].text = "func main() {"
          /\ HasBothMarkers(e.playground.template)

\* the run found build/manifest.json and went on to export
GPExported == GPRan /\ ~gp.last.exited
\* the topics of topics-index.json whose JSON file the latest run found
SeenTopics ==
    {f.rec : f \in {g \in gp.seen.topicFiles :
                       \E i \in 1..Len(gp.seen.topicsIndex.val) :
                           g.path = [dir |-> gp.seen.topicsIndex.val[i].category,
                                     name |-> FileName(gp.seen.topicsIndex.val[i].slug)]}}
ExportedAt(topic) ==
    {f.rec : f \in {g \in export.topicFiles : g.path = TopicPath(topic)}}
SearchDocuments ==
    IF export.searchIndex.exists THEN Range(export.searchIndex.val.documents) ELSE {}
\* the latest run wrote the search index (its time stamp is the run's)
FreshSearchIndex == export.searchIndex.exists /\ export.searchIndex # gp.prev.searchIndex

\* C19: optional data never aborts a topic's export.  For every built topic,
\* also one whose example has no explanation, whose exercise has no content
\* or no matching title, or that has no tags, the topic file and its document
\* of the search index are written, with expectedOutput null, hints and search
\* tags empty and the tests reduced to the one that is always generated.
C19_OptionalDataDegrades ==
    GPExported =>
        \A topic \in SeenTopics :
            /\ ExportedAt(topic) # {}
            /\ FreshSearchIndex
            /\ \E d \in SearchDocuments : d.id = SearchId(topic)
            /\ \A t \in ExportedAt(topic) :
                  /\ \A i \in 1..Len(t.content.examples) :
                        t.content.examples[i].explanation = <<>>
                            => ~t.content.examples[i].playground.expectedOutput.present
                  /\ \A i \in 1..Len(t.content.exercises) :
                        t.content.exercises[i].content = <<>>
                            => t.content.exercises[i].hints = <<>>

\* the same for the exports whose topics all have tags
C19_DegradesWithTags ==
    (GPExported /\ \A f \in export.topicFiles : f.rec.tags.present) =>
        \A topic \in SeenTopics :
            /\ ExportedAt(topic) # {}
            /\ FreshSearchIndex
            /\ \E d \in SearchDocuments : d.id = SearchId(topic)

\* C20: without build/manifest.json godojo:prepare exits non-zero and leaves
\* godojo-export/ exactly as it found it; with it, a topic of
\* topics-index.json whose JSON file is missing from build/topics is passed
\* over and every topic whose file is there is written to godojo-export/.
C20_FatalWithoutBuild ==
    GPRan =>
        /\ ~(gp.seen.exists /\ gp.seen.manifest.exists)
              => (gp.exit # 0 /\ export = gp.prev /\ gp.last.ran = <<>>)
        /\ (gp.seen.exists /\ gp.seen.manifest.exists)
              => /\ "optimizeContent" \in Range(gp.last.ran)
                 /\ \A topic \in SeenTopics :
                       \E t \in ExportedAt(topic) : t.content.theory = topic.content.theory
                 /\ gp.last.stats.topics
                       = Cardinality({i \in 1..Len(gp.seen.topicsIndex.val) :
                            \E g \in gp.seen.topicFiles :
                                g.path = [dir |-> gp.seen.topicsIndex.val[i].category,
                                          name |-> FileName(gp.seen.topicsIndex.val[i].slug)]})

\* the topics of the index whose JSON file the latest run did not find
MissingTopics ==
    {i \in 1..Len(gp.seen.topicsIndex.val) :
        ~\E g \in gp.seen.topicFiles :
            g.path = [dir |-> gp.seen.topicsIndex.val[i].category,
                      name |-> FileName(gp.seen.topicsIndex.val[i].slug)]}

\* an export that passed over a missing topic file, wrote another topic and
\* ended with 0, after an export that failed for want of a build and left
\* the export directory of an earlier run as it was
C20_Witness ==
    /\ gp.runs = 2 /\ gp.exit = 0
    /\ MissingTopics # {} /\ SeenTopics # {}
    /\ \A topic \in SeenTopics : ExportedAt(topic) # {}
    /\ gp.prev = OldExport
    /\ export.report.exists /\ export.report # OldExport.report


\* the ids of a sequence of documents, in order
DocIds(docs) == [i \in 1..Len(docs) |-> docs[i].id]
\* the topics the latest run wrote: those of the index whose file it found
ExportedIds == {SearchId(topic) : topic \in SeenTopics}
\* the ids of the entries of the build's topics-index.json
IndexedIds ==
    {gp.seen.topicsIndex.val[i].category \o "_" \o FileName(gp.seen.topicsIndex.val[i].slug) :
        i \in 1..Len(gp.seen.topicsIndex.val)}

\* C21: search/index.json as the latest export wrote it holds exactly one
\* document per topic exported in that run, with pairwise distinct ids
\* category_slug, none for a topic that is not in the build's
\* topics-index.json, and autocomplete.json lists the same ids in the same order.
C21_SearchIndexOfThisExport ==
    (GPExported /\ FreshSearchIndex) =>
        LET docs == export.searchIndex.val.documents
        IN /\ \A i, j \in 1..Len(docs) : docs[i].id = docs[j].id => i = j
           /\ Range(DocIds(docs)) = ExportedIds
           /\ Range(DocIds(docs)) \subseteq IndexedIds
           /\ export.autocomplete.exists
           /\ DocIds(export.autocomplete.val) = DocIds(docs)

\* the part that holds: distinct ids, a document for every exported topic,
\* and autocomplete.json in step with index.json
C21_CoversExported ==
    (GPExported /\ FreshSearchIndex) =>
        LET docs == export.searchIndex.val.documents
        IN /\ \A i, j \in 1..Len(docs) : docs[i].id = docs[j].id => i = j
           /\ ExportedIds \subseteq Range(DocIds(docs))
           /\ export.autocomplete.exists
           /\ DocIds(export.autocomplete.val) = DocIds(docs)


\* C22: package.json is written anew by every export that completes, its
\* validation.fileCount is the number of files in godojo-export/ as the run
\* leaves it, and an export that follows a completed export of the same,
\* unchanged build/ records the same fileCount.
C22_FileCountOfThisExport ==
    [][(gp'.runs = gp.runs + 1 /\ gp'.exit = 0) =>
          /\ export'.package.exists
          /\ export'.package.val.created = clock'
          /\ export'.package.val.fileCount = countFiles(export')
          /\ (gp.runs >= 1 /\ gp.exit = 0 /\ gp.seen = build)
                => export'.package.val.fileCount = export.package.val.fileCount]_vars

\* what holds: the count is taken before package.json and export-report.json
\* of the run are written, so it counts those files only if they were there
C22_FileCountBeforePackage ==
    [][(gp'.runs = gp.runs + 1 /\ gp'.exit = 0) =>
          /\ export'.package.exists
          /\ export'.package.val.created = clock'
          /\ export'.package.val.fileCount
                = countFiles(export')
                  - Cardinality({f \in {"package", "report"} : ~export[f].exists})]_vars


\* an author:new that created its content and counted it
CreatedContent(r) == r.cmd = "new" /\ r.exit = 0 /\ "showNextSteps" \in Range(r.ran)
AuthorIdentity(p) == <<p.authorId, p.username, p.joinDate>>
\* the file content/<category>/index.md or content/<category>/<slug>/topic.md
\* that a history entry names is there
EntryFile(cont, e) ==
    /\ cont.exists
    /\ cont.cats[e.category].st = "dir"
    /\ IF e.type = "topic" THEN cont.cats[e.category].topics[e.slug].exists
       ELSE cont.cats[e.category].index.st = "ok"

\* C23: from the profile author:init writes (contentCreated 0, no history),
\* the profile file always has contentCreated = length of contentHistory,
\* and every author:new that succeeds counts one item more, appends its
\* entry after the entries that were there and leaves authorId, username
\* and joinDate as they were.
C23_ProfileCountsCreations ==
    /\ [](profile.st = "ok" => profile.contentCreated = Len(profile.history))
    /\ [][(ca'.runs = ca.runs + 1 /\ ca'.cmd = "init" /\ profile.st # "ok"
             /\ profile'.st = "ok")
            => (profile'.contentCreated = 0 /\ profile'.history = <<>>)]_vars
    /\ [][(ca'.runs = ca.runs + 1 /\ CreatedContent(ca')) =>
            /\ profile.st = "ok" /\ profile'.st = "ok"
            /\ profile'.contentCreated = profile.contentCreated + 1
            /\ Len(profile'.history) = Len(profile.history) + 1
            /\ SubSeq(profile'.history, 1, Len(profile.history)) = profile.history
            /\ EntryFile(content', profile'.history[Len(profile'.history)])
            /\ AuthorIdentity(profile') = AuthorIdentity(profile)]_vars

\* two items created one after the other, a category page and then a topic
C23_Witness ==
    /\ ca.runs = 2 /\ CreatedContent(ca)
    /\ profile.contentCreated = 2
    /\ Len(profile.history) = 2
    /\ profile.history[1].type = "category"
    /\ profile.history[2].type = "topic"
    /\ AuthorIdentity(profile) = AuthorIdentity(CreatedProfile)


\* the invocation wrote its content file: updateStats is reached only after
\* generateContent returned the path of the file it wrote
WroteContent(r) == r.cmd = "new" /\ "updateStats" \in Range(r.ran)
\* the profile file q counts one item more than p, the item last in its history
CountsOneMore(p, q, cont) ==
    /\ q.st = "ok"
    /\ q.contentCreated = p.contentCreated + 1
    /\ Len(q.history) = Len(p.history) + 1
    /\ EntryFile(cont, q.history[Len(q.history)])
SaveFailed(r) == r.exit # 0 /\ r.error.code = "AUTHOR_SAVE_FAILED"

\* C26: author:new is all-or-nothing.  When the invocation ends, it has
\* written a content file iff the profile file counts the item; and when
\* saving the profile failed, the profile file and the profile the process
\* holds count what they counted before and content/ is as it was.
C26_NewAllOrNothing ==
    [][(ca'.runs = ca.runs + 1 /\ ca'.cmd = "new") =>
          /\ WroteContent(ca') <=> CountsOneMore(profile, profile', content')
          /\ SaveFailed(ca') =>
                /\ profile' = profile
                /\ ca'.author.contentCreated = profile.contentCreated
                /\ content' = content]_vars

\* what holds: the file and the count go together whenever the save succeeds
C26_CountedWhenSaved ==
    [][(ca'.runs = ca.runs + 1 /\ ca'.cmd = "new" /\ ~SaveFailed(ca')) =>
          (WroteContent(ca') <=> CountsOneMore(profile, profile', content'))]_vars


SourceChecks == {"validateStructure", "validateMarkdownFile", "validateConfiguration"}
ExportChecks ==
    {"validatePackage", "validateMetadata", "validateExportedContent",
     "validateSearchIndexes", "validateSizes"}
\* a godojo:validate run took place in this step
Validated == gv'.runs = 1 /\ gv' # gv

WrittenTopics == {f \in export.topicFiles : f.rec \in {optimizeTopic(t) : t \in SeenTopics}}
StructureErrors(v) ==
    {i \in 1..Len(v.errors) : v.errors[i].by = "validateExportedContent"}

\* C27: every topic file that optimizeContent writes passes the structure
\* check of validateExportedContent (content and content.theoryHtml are
\* there), also for a topic whose theory section is empty, so that a
\* godojo:validate right after a successful godojo:prepare of at least one
\* topic records no content-structure error.
C27_ExportPassesValidator ==
    /\ [](GPExported => \A f \in WrittenTopics : ~BadContentStructure(f.rec))
    /\ [][(Validated /\ gp.runs >= 1 /\ gp.exit = 0 /\ gp.last.stats.topics >= 1
             /\ export.topicFiles = WrittenTopics)
            => StructureErrors(gv'.last) = {}]_vars

\* what holds: the topic files whose theory is not empty pass
C27_NonEmptyTheoryPasses ==
    /\ [](GPExported => \A f \in WrittenTopics :
                            f.rec.content.theory # "" => ~BadContentStructure(f.rec))
    /\ [][(Validated /\ gp.runs >= 1 /\ gp.exit = 0 /\ gp.last.stats.topics >= 1
             /\ export.topicFiles = WrittenTopics
             /\ \A f \in WrittenTopics : f.rec.content.theory # "")
            => StructureErrors(gv'.last) = {}]_vars

\* the passed and error entries of the latest run
PassedBy(check) == {i \in 1..Len(gv.last.passed) : gv.last.passed[i].by = check}
ErrorsBy(check) == {i \in 1..Len(gv.last.errors) : gv.last.errors[i].by = check}

\* C30: GoDojoValidator records a check as passed only if the check recorded
\* no error: the configuration is reported valid only if
\* validateConfiguration added no error, and the export package only if
\* validatePackage added none.
C30_PassedOnlyWithoutError ==
    gv.runs = 1 =>
        /\ PassedBy("validateConfiguration") # {} => ErrorsBy("validateConfiguration") = {}
        /\ PassedBy("validatePackage") # {} => ErrorsBy("validatePackage") = {}

\* what holds: a configuration that is absent or does not parse is not
\* reported valid
C30_UnparsedNotPassed ==
    [][(Validated /\ ~export.package.exists /\ ~gv'.last.threw /\ config.st # "object")
          => \A i \in 1..Len(gv'.last.passed) :
                gv'.last.passed[i].by # "validateConfiguration"]_vars


\* the paths of the items of a list
ItemPaths(items) == {items[i].path : i \in 1..Len(items)}

\* a generator run has just ended
Generated == sg'.runs = sg.runs + 1

\* nothing that was there is changed or deleted by the step
KeepsExisting ==
    /\ rootFs \subseteq rootFs'
    /\ config.st # "missing" => config' = config
    /\ build.exists => build' = build
    /\ content.exists => content'.exists
    /\ \A c \in CatNames :
          (content.exists /\ content.cats[c].st # "absent") =>
              /\ content'.cats[c].st = content.cats[c].st
              /\ content'.cats[c].topics = content.cats[c].topics
              /\ content.cats[c].index.st # "none" =>
                    content'.cats[c].index = content.cats[c].index

\* the run repeats the action of the run before it, a full setup being
\* repeated by each of its four parts
RepeatsAction ==
    /\ sg.runs > 0
    /\ sg'.action # "cancel"
    /\ \/ sg'.action = sg.action
       \/ sg.action = "full" /\ sg'.action \in {"directories", "config", "docs", "sample"}

\* C25: a generator run changes and deletes nothing that existed before it,
\* records no path in both createdItems and skippedItems, and creates nothing
\* when it repeats the action of the run before it.
C25_OnlyCreatesMissing ==
    [][Generated =>
          /\ KeepsExisting
          /\ ItemPaths(sg'.createdItems) \cap ItemPaths(sg'.skippedItems) = {}
          /\ RepeatsAction => sg'.createdItems = <<>>]_vars

\* the parts that hold: nothing that existed is changed or deleted, what a
\* run created is what createdItems lists, and a repeated action creates
\* nothing
C25_KeepsExistingRepeatCreatesNothing ==
    [][Generated =>
          /\ KeepsExisting
          /\ \A i \in 1..Len(sg'.createdItems) :
                LET path == sg'.createdItems[i].path
                IN ~SGExists(SGFiles(<<rootFs, config, content, build>>), path)
                   /\ SGExists(SGFiles(<<rootFs', config', content', build'>>), path)
          /\ RepeatsAction => sg'.createdItems = <<>>]_vars

\* a full setup of an empty project has run, and one of its parts after it
C25_Witness ==
    /\ sg.runs = 2 /\ sg.action = "sample" /\ sg.createdItems = <<>>
    /\ Len(sg.skippedItems) > 0 /\ ~sg.threw
    /\ "content/basics/01-introduction/topic.md" \in rootFs


\* the first module a category declares in content.config.json
FirstDeclaredModule(cat) ==
    CASE cat.modules = "1-15" -> 1 [] cat.modules = "16-30" -> 16 [] OTHER -> 0

\* the topic directories of the category are those author:new makes for
\* consecutive modules from the first declared one on
ScaffoldedInSequence(cat) ==
    LET dir == CatDirOf(cat.slug)
        names == TopicDirsOf(dir)
        first == FirstDeclaredModule(cat)
    IN /\ dir.st = "dir" /\ names # {}
       /\ \A n \in names :
             \E t \in TopicAnswers \cup LaterTopicAnswers :
                n = generateSlug(t.title, t.moduleNumber)
       /\ {PrefixNumber(n) : n \in names} = first..(first + Cardinality(names) - 1)

NamingWarned(n) ==
    SVFound(sv.warnings, "bad topic directory name", n)
    \/ SVFound(sv.warnings, "bad directory name", n)

\* C28: after a completed run of the structure validator, a category whose
\* topic directories author:new made for consecutive modules starting at
\* the first module the category declares has no naming warning and no
\* numbering warning.
C28_ScaffoldedNumberingAccepted ==
    SVCompleted =>
        \A cat \in ConfiguredCats :
            ScaffoldedInSequence(cat) =>
                /\ \A n \in TopicDirsOf(CatDirOf(cat.slug)) : ~NamingWarned(n)
                /\ ~SVFound(sv.warnings, "topic numbering broken", cat.slug)

\* the part that holds: no naming warning for such a category, and no
\* numbering warning when its first declared module is 1
C28_AcceptedFromModuleOne ==
    SVCompleted =>
        \A cat \in ConfiguredCats :
            ScaffoldedInSequence(cat) =>
                /\ \A n \in TopicDirsOf(CatDirOf(cat.slug)) : ~NamingWarned(n)
                /\ FirstDeclaredModule(cat) = 1 =>
                      ~SVFound(sv.warnings, "topic numbering broken", cat.slug)

\* the numbering warning is given exactly to the categories whose sorted
\* numbers are not 1, 2, 3, ...
C28_NumberingFromOne ==
    SVCompleted =>
        \A c \in CatNames :
            content.cats[c].st = "dir" =>
                (SVFound(sv.warnings, "topic numbering broken", c)
                    <=> {PrefixNumber(n) : n \in {m \in TopicDirsOf(content.cats[c]) :
                                                     HasNumberPrefix(m)}}
                        # 1..Cardinality({m \in TopicDirsOf(content.cats[c]) :
                                             HasNumberPrefix(m)}))

C28_Witness ==
    /\ SVCompleted
    /\ \E cat \in ConfiguredCats :
          /\ cat.slug = "basics" /\ ScaffoldedInSequence(cat)
          /\ Cardinality(TopicDirsOf(CatDirOf(cat.slug))) = 2


\* a formatter run has just ended
Formatted == cf'.runs = cf.runs + 1

\* the links of the files, before and after the run: <<file, link>>
LinkPlaces == {<<i, j>> \in (1..Len(cf.files)) \X (1..MaxLinks + 1) :
                  j <= Len(cf.files[i].links)}
LinkBefore(pl) == cf.files[pl[1]].links[pl[2]]
LinkAfter(pl) == cf'.files[pl[1]].links[pl[2]]
SameLinkPlaces ==
    /\ Len(cf'.files) = Len(cf.files)
    /\ \A i \in 1..Len(cf.files) : Len(cf'.files[i].links) = Len(cf.files[i].links)

\* C29: a formatter run leaves every link that the content checker takes
\* for an internal one (its target does not start with http) as it was.
C29_InternalLinksUntouched ==
    [][Formatted =>
          /\ SameLinkPlaces
          /\ \A pl \in LinkPlaces : InternalLink(LinkBefore(pl)) => LinkAfter(pl) = LinkBefore(pl)]_vars

\* https:// is put before a target that has a dot inside and starts with
\* none of http://, https://, # and /, a path of a file too; any other
\* link is left as it was
C29_PrefixesDottedTargets ==
    [][Formatted =>
          /\ SameLinkPlaces
          /\ \A pl \in LinkPlaces :
                /\ LinkAfter(pl).text = LinkBefore(pl).text
                /\ LinkAfter(pl).target =
                      IF content.exists /\ LacksProtocol(LinkBefore(pl))
                      THEN HttpsProtocol \o LinkBefore(pl).target
                      ELSE LinkBefore(pl).target
                /\ ~InternalLink(LinkAfter(pl)) \/ ~LacksProtocol(LinkAfter(pl))]_vars

====
